---- MODULE Spec2Model ----
(***************************************************************************)
(* The streaming transcript aggregator of qernel's client                  *)
(* (qernel/core/client/client.py, qernel/core/client/models.py).           *)
(*                                                                         *)
(* One run of QernelClient.run_stream_with_handler: the server delivers    *)
(* text lines, each line is decoded, validated and folded into the         *)
(* AlgorithmTranscript, and the presentation sinks are called.  The run    *)
(* ends by returning the transcript or by raising.                         *)
(*                                                                         *)
(* Python values: None is the empty tuple and a present value x is <<x>>;  *)
(* a dict is a function from its keys; an untyped JSON value carries its   *)
(* type in the field t.  A stage string is the sequence of its segments    *)
(* between colons ("get_name:ok" is <<"get_name", "ok">>).  Objects that   *)
(* the code shares by reference (the response of a result event and its    *)
(* MethodsPayload) live in the heaps rheap and mheap and are named by      *)
(* their index.  The timestamp field of StreamEvent is left out.  The sink *)
(* calls that may raise are those the event handlers make; printer.finish  *)
(* is taken to succeed.                                                    *)
(*                                                                         *)
(* The second part is the connection side: the SSE stream opener           *)
(* (_post_sse_with_retry), load_artifact and load_artifacts_sequential     *)
(* with their retry loops and the warm-up indicator.  Time is counted in   *)
(* half seconds.  An attempt is answered by a status code or by a          *)
(* transport exception and takes some of the time its timeout allows.  The *)
(* calls of the indicator's printer are taken to succeed.  In Spec and     *)
(* ScenarioSpec the stream is already open; in NetSpec the transcript is   *)
(* left alone.                                                             *)
(*                                                                         *)
(* GuiSpec is run_stream with a visualizer: the UI loop on the calling     *)
(* thread and the consumer of the scenario's stream on the worker.  The    *)
(* visualizer's start_and_run is not among the sources and follows its     *)
(* contract in the specification.  ConcSpec is two calls of                *)
(* run_stream_with_handler on one client, interleaved line by line.        *)
(* TaskSpec is one call of summarize_tasks on a docstring and an analysis. *)
(***************************************************************************)
EXTENDS Integers, Sequences, FiniteSets, TLC

VARIABLES
    pc,         \* "draining" (in the read loop), "returned", "raised"
    clock,      \* the value datetime.utcnow() returns
    ctx,        \* _RunContext: transcript, pipeline_done_summary, viz_sink
    mheap,      \* MethodsPayload objects; mheap[1] is the transcript's own
    rheap,      \* AlgorithmResponse objects, one per result event that has one
    calls,      \* the calls made to the sinks (terminal, gui, stdout), in order
    received,   \* the lines read from the stream so far
    raised,     \* the exception the caller gets, None while there is none
    unread,     \* the server sent a line after the client stopped reading
    perf_counter, \* the value time.perf_counter() returns, in half seconds
    rpc,        \* where the opener or the download is: "idle", "top" (of the
                \* retry loop), "sleeping", "streaming", "returned", "raised"
    op,         \* the call: its name, the number of artifact names, the index
                \* of the artifact being downloaded, the names downloaded
    loop,       \* the locals of the retry loop: deadline, backoff, sleep_s
    warm,       \* the _Warmup object and the indicator of its TerminalPrinter
    http,       \* the requests made: how many, how many answered retryably,
                \* how many answered 200, the last answer
    outcome,    \* what the call gave its caller, None while it runs
    gui,        \* run_stream with a visualizer: the UI loop, the worker that
                \* consumes the stream, the transcript variable, the result
    peer,       \* a second run_stream_with_handler call on the same client
    task        \* a call of summarize_tasks: its arguments and what it gave

netvars == <<perf_counter, rpc, op, loop, warm, http, outcome>>

\* What a step of one part of the program leaves alone of the other parts
elsewhere == <<gui, peer, task>>

vars == <<pc, clock, ctx, mheap, rheap, calls, received, raised, unread,
          perf_counter, rpc, op, loop, warm, http, outcome, gui, peer, task>>

\* ------------------------------------------------------------------ bounds

\* Lines the server sends in one run (Spec)
MaxLines == 3
\* Lines that are no events, sent between the events of the scenario (ScenarioSpec)
MaxNoise == 1

\* By how much the clock may have advanced when the run ends
Ticks == {0, 1}

\* ------------------------------------------------------------ Python values

None == <<>>
Some(x) == <<x>>
IsNone(o) == Len(o) = 0
IsSome(o) == Len(o) = 1
Val(o) == o[1]

Str(s) == [t |-> "str", v |-> s]
Map(m) == [t |-> "map", v |-> m]
Num(n) == [t |-> "num", v |-> n]

EmptyDict == <<>>

\* str(x) of a JSON value, as _update_methods_from_status applies it
PyStr(x) ==
    IF x.t = "str" THEN x.v
    ELSE IF x.t = "num" THEN (CASE x.v = 7 -> "7" [] OTHER -> "0")
    ELSE "{...}"

\* isinstance(x, Mapping) of an Optional[Any]
IsMapping(o) == IsSome(o) /\ Val(o).t = "map"

\* d.update(e) on a copy of d: the keys of e win
DictUpdate(d, e) ==
    [k \in (DOMAIN d) \cup (DOMAIN e) |-> IF k \in DOMAIN e THEN e[k] ELSE d[k]]

\* d with d[key] = value assigned
DictSet(d, key, value) ==
    [k \in (DOMAIN d) \cup {key} |-> IF k = key THEN value ELSE d[k]]

\* stage.startswith(prefix) and stage.endswith(":" + suffix), on segments
StartsWith(stage, prefix) ==
    /\ Len(stage) >= Len(prefix)
    /\ SubSeq(stage, 1, Len(prefix)) = prefix

EndsWith(stage, suffix) ==
    /\ Len(stage) >= 2
    /\ stage[Len(stage)] = suffix

\* ------------------------------------------------------------- data model

MethodsPayload ==
    [get_name_doc |-> "", get_type_doc |-> "", build_circuit_doc |-> <<>>,
     validate_params_doc |-> "",
     get_name_result |-> None, get_type_result |-> None,
     build_circuit_summary |-> None, build_circuit_type |-> None,
     get_name_error |-> None, get_type_error |-> None,
     build_circuit_error |-> None, validate_params_error |-> None]

ResultFields ==
    {"get_name_result", "get_type_result", "build_circuit_summary", "build_circuit_type"}

AlgorithmTranscript ==
    [events |-> <<>>, response |-> None, methods |-> 1,
     class_name |-> None, class_doc |-> None,
     started_at |-> 0, ended_at |-> None, ended_reason |-> None]

EventTypes == {"start", "status", "error", "result", "done"}

\* The JSON object of one event as it is on the wire; an absent key is None.
Obj(type, stage, result, summary, obj_type, response) ==
    [type |-> type, message |-> None, stage |-> stage, error |-> None,
     result |-> result, summary |-> summary, obj_type |-> obj_type,
     response |-> response]

EmptyObj == Obj(None, None, None, None, None, None)

Status(stage, result, summary, obj_type) ==
    Obj(Some("status"), Some(stage), result, summary, obj_type, None)

\* ---------------------------------------------------- what the server sends

S1 == [a |-> 1]
S2 == [a |-> 3, b |-> 9]
R == [b |-> 2]

\* A response whose methods carry the results, with an analysis
Response1 ==
    [class_ |-> Some("BellAlgo"), class_doc |-> "Bell pair",
     methods |-> [MethodsPayload EXCEPT !.get_name_result = Some("Bell"),
                                        !.get_type_result = Some("demo"),
                                        !.build_circuit_doc = <<"Resource", "estimate">>],
     analysis |-> Some([summary |-> R,
                        artifacts |-> [circuit_json_b64 |-> "eyJxIjoyfQ=="]])]

\* A response whose methods carry no result, without analysis
Response2 ==
    [class_ |-> Some("BellAlgo"), class_doc |-> "",
     methods |-> MethodsPayload,
     analysis |-> None]

StatusObjs ==
    { Status(<<"get_name", "ok">>, Some(Str("Bell")), None, None),
      Status(<<"get_name", "ok">>, None, None, None),
      Status(<<"get_type", "ok">>, Some(Num(7)), None, None),
      Status(<<"build_circuit", "ok">>, None, Some(Str("H;CNOT")), Some("Circuit")),
      Status(<<"pipeline", "done">>, None, Some(Map(S1)), None),
      Status(<<"pipeline", "done">>, None, Some(Map(S2)), None),
      Status(<<"pipeline", "done">>, None, Some(Str("ok")), None),
      Status(<<"storage", "err">>, None, None, None) }

ResultObjs ==
    { Obj(Some("result"), None, None, None, None, None),
      Obj(Some("result"), None, None, None, None, Some(Response1)),
      Obj(Some("result"), None, None, None, None, Some(Response2)) }

ValidObjs ==
    { Obj(Some("start"), None, None, None, None, None),
      Obj(Some("error"), None, None, None, None, None),
      Obj(Some("done"), None, None, None, None, None) }
    \cup StatusObjs \cup ResultObjs

\* A JSON object that is no StreamEvent: its type is none of the five
InvalidObjs == { Obj(Some("progress"), None, None, None, None, None) }

\* A line of the response body: whether it starts with "data: ", and what
\* json.loads makes of the rest ("invalid" when it raises JSONDecodeError)
Line(prefix, syntax, obj) == [prefix |-> prefix, syntax |-> syntax, obj |-> obj]

EventLines == { Line(TRUE, "object", o) : o \in ValidObjs }
InvalidLines == { Line(TRUE, "object", o) : o \in InvalidObjs }
OpaqueLines ==
    { Line(FALSE, "object", Obj(Some("done"), None, None, None, None, None)),
                                            \* an event's JSON without "data: "
      Line(TRUE, "invalid", EmptyObj),      \* "data: {oops"
      Line(TRUE, "list", EmptyObj) }        \* "data: [1, 2]"

Lines == EventLines \cup InvalidLines \cup OpaqueLines

\* ------------------------------------------------------------------ sinks

Call(sink, method, arg) == [sink |-> sink, method |-> method, arg |-> arg]

\* What a sink does when called: at most one call of a step raises.
NoFault == [site |-> "none", exc |-> "none"]
Excs == {"RuntimeError", "ValueError", "KeyError"}
Fault(site, exc) == [site |-> site, exc |-> exc]

SitesOf(obj) ==
    IF IsNone(obj.type) THEN {}
    ELSE CASE Val(obj.type) = "start" -> {"print_status", "update_status"}
           [] Val(obj.type) = "status" ->
                {"print_status", "print_storage_details", "update_status"}
           [] Val(obj.type) = "result" ->
                {"print_result_summary", "print_task_summary", "update_with_results"}
           [] OTHER -> {}

FaultsOf(obj) == {NoFault} \cup { Fault(s, x) : s \in SitesOf(obj), x \in Excs }

\* except (AttributeError, RuntimeError): pass
SinkGuard == {"AttributeError", "RuntimeError"}

\* The call at `site` lets its exception out
Escapes(fault, site, guarded) ==
    /\ fault.site = site
    /\ ~(guarded /\ fault.exc \in SinkGuard)

\* ------------------------------------------- the memory a handler works on

Mem == [ctx |-> ctx, mheap |-> mheap, rheap |-> rheap, calls |-> calls]

Logged(mem, call) == [mem EXCEPT !.calls = Append(@, call)]

Exc(kind, origin, transcript) ==
    [kind |-> kind, origin |-> origin, transcript |-> transcript]

Ok(mem) == [mem |-> mem, exc |-> None]
Raise(mem, exc) == [mem |-> mem, exc |-> Some(exc)]

\* AlgorithmResponse.model_dump: the response with its methods object inlined
DumpResponse(mem, r) ==
    [class_ |-> mem.rheap[r].class_, class_doc |-> mem.rheap[r].class_doc,
     methods |-> mem.mheap[mem.rheap[r].methods],
     analysis |-> mem.rheap[r].analysis]

DumpOptResponse(mem, o) == IF IsNone(o) THEN None ELSE Some(DumpResponse(mem, Val(o)))

to_jsonable(mem) ==
    LET t == mem.ctx.transcript IN
    [events |-> [i \in 1..Len(t.events) |->
                    [t.events[i] EXCEPT !.response = DumpOptResponse(mem, @)]],
     response |-> DumpOptResponse(mem, t.response),
     methods |-> mem.mheap[t.methods],
     class_name |-> t.class_name, class_doc |-> t.class_doc,
     started_at |-> t.started_at, ended_at |-> t.ended_at,
     ended_reason |-> t.ended_reason]

\* ----------------------------------------------------------- line decoding

\* What stream_events yields for a line: a str, a dict or another JSON value
PyValue(py, obj) == [py |-> py, obj |-> obj]

\* json.loads(data_str), None when it raises JSONDecodeError
parse_sse_data_line(line) ==
    CASE line.syntax = "invalid" -> None
      [] line.syntax = "null" -> None
      [] line.syntax = "list" -> Some(PyValue("list", EmptyObj))
      [] OTHER -> Some(PyValue("dict", line.obj))

\* Mutant: the "data: " prefix is not looked at
maybe_parse_event_line_any_prefix(line) ==
    LET parsed == parse_sse_data_line(line) IN
    IF IsSome(parsed) THEN parsed ELSE Some(PyValue("str", EmptyObj))

maybe_parse_event_line(line) ==
    IF ~line.prefix THEN None
    ELSE LET parsed == parse_sse_data_line(line) IN
         IF IsSome(parsed) THEN parsed ELSE Some(PyValue("str", EmptyObj))

stream_events(line) ==
    LET maybe_parsed == maybe_parse_event_line(line) IN
    IF IsSome(maybe_parsed) THEN Val(maybe_parsed) ELSE PyValue("str", EmptyObj)

\* StreamEvent.model_validate accepts the object
ResponseIsValid(o) == IsNone(o) \/ IsSome(Val(o).class_)

model_validate_ok(obj) ==
    /\ IsSome(obj.type)
    /\ Val(obj.type) \in EventTypes
    /\ ResponseIsValid(obj.response)

\* The StreamEvent built from a valid object; a response and its methods
\* become objects of their own
StreamEvent(mem, obj) ==
    IF IsNone(obj.response)
    THEN [mem |-> mem, se |-> [obj EXCEPT !.type = Val(obj.type)]]
    ELSE LET w == Val(obj.response)
             mi == Len(mem.mheap) + 1
             ri == Len(mem.rheap) + 1
             resp == [class_ |-> Val(w.class_), class_doc |-> w.class_doc,
                      methods |-> mi, analysis |-> w.analysis]
         IN [mem |-> [mem EXCEPT !.mheap = Append(@, w.methods),
                                 !.rheap = Append(@, resp)],
             se |-> [obj EXCEPT !.type = Val(obj.type), !.response = Some(ri)]]

\* ------------------------------------------------------------ Task Summarizer
\* A text (a docstring, the name of a step) is a sequence of pieces: words,
\* parts of words, blanks and dots.  The empty sequence stands for the empty
\* and for the missing docstring alike: both are falsy.

Lower(word) ==
    CASE word = "Resource" -> "resource"
      [] word = "ZNE" -> "zne"
      [] word = "Execute" -> "execute"
      [] word = "Simulator" -> "simulator"
      [] OTHER -> word

\* text.lower()
LowerText(text) == [i \in 1..Len(text) |-> Lower(text[i])]

\* kw in text, kw a sequence of pieces
InText(text, kw) ==
    \E i \in 1..(Len(text) - Len(kw) + 1) : SubSeq(text, i, i + Len(kw) - 1) = kw

\* JSON values beyond strings, maps and integers
Null == [t |-> "null", v |-> 0]
Float(num, den) == [t |-> "float", v |-> <<num, den>>]
List(s) == [t |-> "list", v |-> s]

\* bool(x) of a JSON value
Truthy(x) ==
    CASE x.t = "null" -> FALSE
      [] x.t = "map" -> DOMAIN x.v # {}
      [] x.t = "list" -> Len(x.v) > 0
      [] x.t = "str" -> x.v # ""
      [] x.t = "num" -> x.v # 0
      [] OTHER -> TRUE

\* d.get(key), None when the key is missing
Get(d, key) == IF key \in DOMAIN d THEN d[key] ELSE Null

\* The dict d with the keys in keys only
Restrict(d, keys) == [k \in (DOMAIN d) \cap keys |-> d[k]]

get_pipeline(analysis) ==
    IF IsNone(analysis) \/ DOMAIN Val(analysis) = {} THEN <<>>
    ELSE LET pipeline == Get(Val(analysis), "pipeline")
         IN IF pipeline.t = "list" THEN pipeline.v ELSE <<>>

\* (step or {}).get raises AttributeError: the step is truthy and has no get
step_get_raises(step) == Truthy(step) /\ step.t # "map"

\* (step or {})
StepOrEmpty(step) == IF Truthy(step) THEN step.v ELSE EmptyDict

\* Mutant: every step matches
matches_any_keyword_all(step, keywords) == TRUE

matches_any_keyword(step, keywords) ==
    LET d == StepOrEmpty(step)
        name == LowerText(IF "name" \in DOMAIN d THEN d.name ELSE <<>>)
    IN \E i \in 1..Len(keywords) : InText(name, keywords[i])

KnownOutputFields == {"summary", "counts", "shots", "mitigated_value", "raw_value", "metrics"}

slice_known_output_fields(out) == Restrict(out, KnownOutputFields)

SummaryDetailKeys == {"t_count", "qubit_count", "depth", "op_counts", "mitigated_value"}

collect_step_details_from_output(out) ==
    LET step_sum == Get(out, "summary")
        d1 == IF step_sum.t = "map" THEN Restrict(step_sum.v, SummaryDetailKeys)
              ELSE EmptyDict
        d2 == Restrict(out, { key \in {"mitigated_value", "raw_value"} :
                                 Get(out, key) # Null })
        d3 == Restrict(out, { key \in {"counts"} : Get(out, key).t = "map" })
        d4 == Restrict(out, { key \in {"shots"} : Get(out, key) # Null })
    IN DictUpdate(DictUpdate(DictUpdate(d1, d2), d3), d4)

ResourceKeywords ==
    << <<"resource", ".", "qualtran">>, <<"qualtran">>, <<"resource">>,
       <<"estimate">>, <<"resource", "_", "estimation">> >>

MitigationKeywords ==
    << <<"mitigation", ".", "mitiq", ".", "zne">>, <<"mitiq">>, <<"zne">>,
       <<"mitigation">> >>

SimulationKeywords ==
    << <<"execute", ".", "simulator">>, <<"simulator">>, <<"execute">>,
       <<"histogram">>, <<"counts">>, <<"shots">> >>

TaskSpecOf(id, title, keywords) == [id |-> id, title |-> title, keywords |-> keywords]

\* Mutant: the phrase "error mitigation" is not looked for
extract_task_specs_from_doc_no_phrase(doc) ==
    IF Len(doc) = 0 THEN <<>>
    ELSE LET text == LowerText(doc) IN
         (IF InText(text, <<"resource">>) \/ InText(text, <<"estimate">>)
          THEN <<TaskSpecOf("resource_estimation", "Resource Estimation", ResourceKeywords)>>
          ELSE <<>>)
      \o (IF InText(text, <<"mitiq">>) \/ InText(text, <<"zne">>)
          THEN <<TaskSpecOf("error_mitigation_zne", "Error Mitigation (Mitiq ZNE)",
                            MitigationKeywords)>>
          ELSE <<>>)
      \o (IF InText(text, <<"simulate">>) \/ InText(text, <<"simulation">>)
             \/ InText(text, <<"histogram">>) \/ InText(text, <<"shots">>)
          THEN <<TaskSpecOf("simulation_histogram", "Simulation (Histogram)",
                            SimulationKeywords)>>
          ELSE <<>>)

\* The tasks the build_circuit docstring names, in detection order
extract_task_specs_from_doc(doc) ==
    IF Len(doc) = 0 THEN <<>>
    ELSE LET text == LowerText(doc) IN
         (IF InText(text, <<"resource">>) \/ InText(text, <<"estimate">>)
          THEN <<TaskSpecOf("resource_estimation", "Resource Estimation", ResourceKeywords)>>
          ELSE <<>>)
      \o (IF InText(text, <<"mitiq">>) \/ InText(text, <<"zne">>)
             \/ InText(text, <<"error", " ", "mitigation">>)
          THEN <<TaskSpecOf("error_mitigation_zne", "Error Mitigation (Mitiq ZNE)",
                            MitigationKeywords)>>
          ELSE <<>>)
      \o (IF InText(text, <<"simulate">>) \/ InText(text, <<"simulation">>)
             \/ InText(text, <<"histogram">>) \/ InText(text, <<"shots">>)
          THEN <<TaskSpecOf("simulation_histogram", "Simulation (Histogram)",
                            SimulationKeywords)>>
          ELSE <<>>)

\* (step or {}).get("output") or {}
OutputOf(step) ==
    LET out == Get(StepOrEmpty(step), "output")
    IN IF Truthy(out) THEN out ELSE Map(EmptyDict)

\* [step for step in pipeline if _matches_any_keyword(step, keywords)]
Matched(pipeline, keywords) ==
    SelectSeq(pipeline, LAMBDA step : matches_any_keyword(step, keywords))

\* Mutant: the output is always the filtered one
task_payload_slice_filtered(analysis, keywords) ==
    LET matched == Matched(get_pipeline(analysis), keywords)
    IN IF Len(matched) = 0 THEN EmptyDict
       ELSE IF Len(matched) > 1 THEN [pipeline |-> matched]
       ELSE LET step == matched[1]
                out == OutputOf(step)
            IN IF out.t = "map"
               THEN [pipeline |-> <<step>>, output |-> slice_known_output_fields(out.v)]
               ELSE [pipeline |-> <<step>>]

\* Mutant: a slice is given only for a matched step whose output is a map
task_payload_slice_map_only(analysis, keywords) ==
    LET matched == Matched(get_pipeline(analysis), keywords)
    IN IF Len(matched) # 1 \/ OutputOf(matched[1]).t # "map" THEN EmptyDict
       ELSE LET step == matched[1]
                out == OutputOf(step)
                sliced == slice_known_output_fields(out.v)
            IN [pipeline |-> <<step>>,
                output |-> IF DOMAIN sliced # {} THEN sliced ELSE out.v]

task_payload_slice(analysis, keywords) ==
    LET matched == Matched(get_pipeline(analysis), keywords)
    IN IF Len(matched) = 0 THEN EmptyDict
       ELSE IF Len(matched) > 1 THEN [pipeline |-> matched]
       ELSE LET step == matched[1]
                out == OutputOf(step)
            IN IF out.t = "map"
               THEN LET sliced == slice_known_output_fields(out.v)
                    IN [pipeline |-> <<step>>,
                        output |-> IF DOMAIN sliced # {} THEN sliced ELSE out.v]
               ELSE [pipeline |-> <<step>>]

RECURSIVE DetailsOfSteps(_, _, _)
\* The loop of task_details_from_analysis over the steps, from details on
DetailsOfSteps(pipeline, keywords, details) ==
    IF Len(pipeline) = 0 THEN details
    ELSE LET step == Head(pipeline)
             out == OutputOf(step)
         IN DetailsOfSteps(Tail(pipeline), keywords,
               IF matches_any_keyword(step, keywords) /\ out.t = "map"
               THEN DictUpdate(details, collect_step_details_from_output(out.v))
               ELSE details)

task_details_from_analysis(analysis, keywords) ==
    DetailsOfSteps(get_pipeline(analysis), keywords, EmptyDict)

\* Mutant: the status looks at the details only
TaskSummaryEntry_status_by_details(spec, details, payload) ==
    [id |-> spec.id, title |-> spec.title,
     status |-> IF DOMAIN details # {} THEN "success" ELSE "info",
     details |-> details, json |-> payload]

\* The entry that summarize_tasks appends for a task
TaskSummaryEntry(spec, details, payload) ==
    [id |-> spec.id, title |-> spec.title,
     status |-> IF DOMAIN details # {} \/ DOMAIN payload # {}
                THEN "success" ELSE "info",
     details |-> details, json |-> payload]

\* The loop of summarize_tasks over the specs; details and payload are
\* computed once per spec
SummaryOfSpecs(specs, analysis) ==
    [i \in 1..Len(specs) |->
        CHOOSE entry \in
            { TaskSummaryEntry(specs[i], details, payload) :
                 details \in {task_details_from_analysis(analysis, specs[i].keywords)},
                 payload \in {task_payload_slice(analysis, specs[i].keywords)} } : TRUE]

\* One entry per detected task, when no step raises; the arguments are
\* evaluated once, as the call does
summarize_tasks(build_doc, analysis) ==
    CHOOSE summary \in
        { SummaryOfSpecs(specs, a) :
             specs \in {extract_task_specs_from_doc(build_doc)},
             a \in {analysis} } : TRUE

\* summarize_tasks raises AttributeError: a task was detected and a step of
\* the pipeline has no get
summarize_tasks_raises(build_doc, analysis) ==
    /\ Len(extract_task_specs_from_doc(build_doc)) > 0
    /\ \E i \in 1..Len(get_pipeline(analysis)) : step_get_raises(get_pipeline(analysis)[i])

\* ------------------------------------------------------------------ handlers

Transcript(mem) == mem.ctx.transcript

status_level_from_stage(stage) ==
    IF EndsWith(stage, "ok") THEN "success"
    ELSE IF EndsWith(stage, "err") THEN "error"
    ELSE "info"

handle_start_event(mem, e, fault) ==
    LET m1 == Logged(mem, Call("terminal", "print_status", "info"))
        m2 == IF mem.ctx.viz_sink
              THEN Logged(m1, Call("gui", "update_status", "info"))
              ELSE m1
    IN IF Escapes(fault, "print_status", FALSE)
       THEN Raise(m1, Exc(fault.exc, "sink", None))
       ELSE IF mem.ctx.viz_sink /\ Escapes(fault, "update_status", TRUE)
       THEN Raise(m2, Exc(fault.exc, "sink", None))
       ELSE Ok(m2)

SetMethodsField(mem, field, value) ==
    [mem EXCEPT !.mheap[Transcript(mem).methods][field] = value]

\* Mutant: an ok status without a result clears the field
update_methods_from_status_clearing(mem, e, stage) ==
    IF StartsWith(stage, <<"get_name", "ok">>)
    THEN SetMethodsField(mem, "get_name_result",
                         IF IsSome(e.result) THEN Some(PyStr(Val(e.result))) ELSE None)
    ELSE IF StartsWith(stage, <<"get_type", "ok">>) /\ IsSome(e.result)
    THEN SetMethodsField(mem, "get_type_result", Some(PyStr(Val(e.result))))
    ELSE IF StartsWith(stage, <<"build_circuit", "ok">>)
    THEN SetMethodsField(SetMethodsField(mem, "build_circuit_summary", e.summary),
                         "build_circuit_type", e.obj_type)
    ELSE mem

\* Mutant: get_type:ok is not folded
update_methods_from_status_name_only(mem, e, stage) ==
    IF StartsWith(stage, <<"get_name", "ok">>) /\ IsSome(e.result)
    THEN SetMethodsField(mem, "get_name_result", Some(PyStr(Val(e.result))))
    ELSE IF StartsWith(stage, <<"build_circuit", "ok">>) /\ IsSome(e.summary)
    THEN SetMethodsField(mem, "build_circuit_summary", e.summary)
    ELSE mem

\* Mutant: summary and obj_type are folded whatever the stage
update_methods_from_status_any_stage(mem, e, stage) ==
    IF StartsWith(stage, <<"get_name", "ok">>) /\ IsSome(e.result)
    THEN SetMethodsField(mem, "get_name_result", Some(PyStr(Val(e.result))))
    ELSE IF StartsWith(stage, <<"get_type", "ok">>) /\ IsSome(e.result)
    THEN SetMethodsField(mem, "get_type_result", Some(PyStr(Val(e.result))))
    ELSE LET m1 == IF IsSome(e.summary)
                   THEN SetMethodsField(mem, "build_circuit_summary", e.summary)
                   ELSE mem
         IN IF IsSome(e.obj_type)
            THEN SetMethodsField(m1, "build_circuit_type", e.obj_type)
            ELSE m1

update_methods_from_status(mem, e, stage) ==
    IF StartsWith(stage, <<"get_name", "ok">>) /\ IsSome(e.result)
    THEN SetMethodsField(mem, "get_name_result", Some(PyStr(Val(e.result))))
    ELSE IF StartsWith(stage, <<"get_type", "ok">>) /\ IsSome(e.result)
    THEN SetMethodsField(mem, "get_type_result", Some(PyStr(Val(e.result))))
    ELSE IF StartsWith(stage, <<"build_circuit", "ok">>)
    THEN LET m1 == IF IsSome(e.summary)
                   THEN SetMethodsField(mem, "build_circuit_summary", e.summary)
                   ELSE mem
         IN IF IsSome(e.obj_type)
            THEN SetMethodsField(m1, "build_circuit_type", e.obj_type)
            ELSE m1
    ELSE mem

\* Mutant: a pipeline:done summary is merged into a response already held
StashPipelineDone_merging(mem, e, stage) ==
    IF StartsWith(stage, <<"pipeline", "done">>) /\ IsMapping(e.summary)
    THEN LET response == mem.ctx.transcript.response
             r == Val(response)
             analysis == IF IsSome(mem.rheap[r].analysis)
                         THEN Val(mem.rheap[r].analysis) ELSE EmptyDict
             sum0 == DictUpdate(IF "summary" \in DOMAIN analysis
                                THEN analysis["summary"] ELSE EmptyDict,
                                Val(e.summary).v)
         IN IF IsNone(response)
            THEN [mem EXCEPT !.ctx.pipeline_done_summary = Some(Val(e.summary).v)]
            ELSE [mem EXCEPT !.ctx.pipeline_done_summary = Some(Val(e.summary).v),
                             !.rheap[r].analysis =
                                 Some(DictSet(analysis, "summary", sum0))]
    ELSE mem

\* Mutant: the first pipeline:done summary is kept
StashPipelineDone_first(mem, e, stage) ==
    IF /\ StartsWith(stage, <<"pipeline", "done">>) /\ IsMapping(e.summary)
       /\ IsNone(mem.ctx.pipeline_done_summary)
    THEN [mem EXCEPT !.ctx.pipeline_done_summary = Some(Val(e.summary).v)]
    ELSE mem

StashPipelineDone(mem, e, stage) ==
    IF StartsWith(stage, <<"pipeline", "done">>) /\ IsMapping(e.summary)
    THEN [mem EXCEPT !.ctx.pipeline_done_summary = Some(Val(e.summary).v)]
    ELSE mem

handle_status_event(mem, e, fault) ==
    LET stage == IF IsSome(e.stage) THEN Val(e.stage) ELSE <<>>
        level == status_level_from_stage(stage)
        storage == StartsWith(stage, <<"storage">>) /\ Len(stage) >= 2
        m1 == Logged(mem, Call("terminal", "print_status", level))
        m2 == IF storage
              THEN Logged(m1, Call("terminal", "print_storage_details", ""))
              ELSE m1
        m3 == IF mem.ctx.viz_sink
              THEN Logged(m2, Call("gui", "update_status", level))
              ELSE m2
    IN IF Escapes(fault, "print_status", FALSE)
       THEN Raise(m1, Exc(fault.exc, "sink", None))
       ELSE IF storage /\ Escapes(fault, "print_storage_details", TRUE)
       THEN Raise(m2, Exc(fault.exc, "sink", None))
       ELSE IF mem.ctx.viz_sink /\ Escapes(fault, "update_status", TRUE)
       THEN Raise(m3, Exc(fault.exc, "sink", None))
       ELSE Ok(StashPipelineDone(update_methods_from_status(m3, e, stage), e, stage))

\* analysis or {}
AnalysisOrEmpty(o) == IF IsSome(o) THEN Val(o) ELSE EmptyDict

\* merged.get("summary") or {}
SummaryOrEmpty(analysis) ==
    IF "summary" \in DOMAIN analysis THEN analysis["summary"] ELSE EmptyDict

\* Mutant: the result's own summary wins on a key that both have
merge_pipeline_summary_into_analysis_own_wins(mem, r, pipeline_done_summary) ==
    IF IsNone(pipeline_done_summary) THEN mem
    ELSE LET analysis == AnalysisOrEmpty(mem.rheap[r].analysis)
             sum0 == DictUpdate(Val(pipeline_done_summary), SummaryOrEmpty(analysis))
         IN [mem EXCEPT !.rheap[r].analysis = Some(DictSet(analysis, "summary", sum0))]

merge_pipeline_summary_into_analysis(mem, r, pipeline_done_summary) ==
    IF IsNone(pipeline_done_summary) THEN mem
    ELSE LET analysis == AnalysisOrEmpty(mem.rheap[r].analysis)
             sum0 == DictUpdate(SummaryOrEmpty(analysis), Val(pipeline_done_summary))
         IN [mem EXCEPT !.rheap[r].analysis = Some(DictSet(analysis, "summary", sum0))]

\* base64 -> utf-8 -> JSON of the artifact texts that occur
B64Decode(b64) ==
    CASE b64 = "eyJxIjoyfQ==" -> Some(Map([q |-> 2]))
      [] b64 = "SDtDTk9U" -> Some(Str("H;CNOT"))
      [] OTHER -> None

decode_optional_artifacts(mem, r) ==
    LET analysis == AnalysisOrEmpty(mem.rheap[r].analysis)
        artifacts == IF "artifacts" \in DOMAIN analysis
                     THEN analysis["artifacts"] ELSE EmptyDict
        b64 == IF "circuit_json_b64" \in DOMAIN artifacts
               THEN artifacts["circuit_json_b64"] ELSE ""
    IN IF b64 = "" \/ IsNone(B64Decode(b64)) THEN mem
       ELSE [mem EXCEPT !.rheap[r].analysis =
                Some(DictSet(analysis, "artifacts",
                             DictSet(artifacts, "circuit_json", Val(B64Decode(b64)))))]

print_and_visualize_result(mem, task_summary, fault) ==
    LET tasks == Len(task_summary) > 0
        m1 == Logged(mem, Call("terminal", "print_result_summary", ""))
        m2 == IF tasks
              THEN Logged(m1, Call("terminal", "print_task_summary", ""))
              ELSE m1
        m3 == IF mem.ctx.viz_sink
              THEN Logged(m2, Call("gui", "update_with_results",
                                   IF tasks THEN "task_summary" ELSE ""))
              ELSE m2
    IN IF Escapes(fault, "print_result_summary", FALSE)
       THEN Raise(m1, Exc(fault.exc, "sink", None))
       ELSE IF tasks /\ Escapes(fault, "print_task_summary", TRUE)
       THEN Raise(m2, Exc(fault.exc, "sink", None))
       ELSE IF mem.ctx.viz_sink /\ Escapes(fault, "update_with_results", TRUE)
       THEN Raise(m3, Exc(fault.exc, "sink", None))
       ELSE Ok(m3)

\* Mutant: the transcript gets a copy of the response's methods
SyncTopLevel_copying(mem, r) ==
    [mem EXCEPT !.mheap = Append(@, mem.mheap[mem.rheap[r].methods]),
                !.ctx.transcript.response = Some(r),
                !.ctx.transcript.methods = Len(mem.mheap) + 1,
                !.ctx.transcript.class_name = Some(mem.rheap[r].class_),
                !.ctx.transcript.class_doc = Some(mem.rheap[r].class_doc)]

\* transcript.response, methods, class_name, class_doc := those of response r
SyncTopLevel(mem, r) ==
    [mem EXCEPT !.ctx.transcript.response = Some(r),
                !.ctx.transcript.methods = mem.rheap[r].methods,
                !.ctx.transcript.class_name = Some(mem.rheap[r].class_),
                !.ctx.transcript.class_doc = Some(mem.rheap[r].class_doc)]

handle_result_event(mem, e, fault) ==
    IF IsNone(e.response) THEN Ok(mem)
    ELSE LET r == Val(e.response)
             m1 == merge_pipeline_summary_into_analysis(
                       mem, r, mem.ctx.pipeline_done_summary)
             m2 == decode_optional_artifacts(m1, r)
             m3 == SyncTopLevel(m2, r)
             build_doc == m3.mheap[Transcript(m3).methods].build_circuit_doc
             task_summary == summarize_tasks(build_doc, m3.rheap[r].analysis)
         IN IF summarize_tasks_raises(build_doc, m3.rheap[r].analysis)
            THEN Raise(m3, Exc("AttributeError", "task_summary", None))
            ELSE print_and_visualize_result(m3, task_summary, fault)

\* Mutant: the snapshot is taken before ended_reason is set
handle_error_event_unmarked(mem, e) ==
    LET m1 == [mem EXCEPT !.ctx.transcript.ended_reason = Some("error")]
    IN Raise(m1, Exc("QernelAPIError", "error_event", Some(to_jsonable(mem))))

handle_error_event(mem, e) ==
    LET m1 == [mem EXCEPT !.ctx.transcript.ended_reason = Some("error")]
    IN Raise(m1, Exc("QernelAPIError", "error_event", Some(to_jsonable(m1))))

\* Mutant: ended_reason is not set
mark_done_no_reason(mem, now) ==
    [mem EXCEPT !.ctx.transcript.ended_at = Some(now)]

mark_done(mem, now) ==
    [mem EXCEPT !.ctx.transcript.ended_reason = Some("done"),
                !.ctx.transcript.ended_at = Some(now)]

add_event(mem, se) ==
    LET m1 == [mem EXCEPT !.ctx.transcript.events = Append(@, se)]
    IN IF se.type = "result" /\ IsSome(se.response)
       THEN SyncTopLevel(m1, Val(se.response))
       ELSE m1

\* handlers.get(se.type)(se)
Dispatch(mem, se, fault, now) ==
    CASE se.type = "start" -> handle_start_event(mem, se, fault)
      [] se.type = "status" -> handle_status_event(mem, se, fault)
      [] se.type = "error" -> handle_error_event(mem, se)
      [] se.type = "result" -> handle_result_event(mem, se, fault)
      [] OTHER -> Ok(mark_done(mem, now))

\* Mutant: the drain loop goes on after done
StopsDraining_never(se) == FALSE

\* _process_stream_event returns True: the drain loop stops reading
StopsDraining(se) == se.type = "done"

validate_or_print_passthrough(mem, evt) ==
    IF evt.py = "dict"
    THEN IF model_validate_ok(evt.obj)
         THEN [mem |-> mem, exc |-> None, valid |-> TRUE]
         \* pydantic's ValidationError is a ValueError: the except clause
         \* (AttributeError, RuntimeError) lets it through
         ELSE [mem |-> mem, exc |-> Some(Exc("ValueError", "validation", None)),
               valid |-> FALSE]
    ELSE [mem |-> Logged(mem, Call("stdout", "print", evt.py)), exc |-> None,
          valid |-> FALSE]

process_stream_event(mem, evt, fault, now) ==
    LET v == validate_or_print_passthrough(mem, evt) IN
    IF ~v.valid THEN [mem |-> v.mem, exc |-> v.exc, done |-> FALSE]
    ELSE LET a == StreamEvent(mem, evt.obj)
             h == Dispatch(add_event(a.mem, a.se), a.se, fault, now)
         IN [mem |-> h.mem, exc |-> h.exc, done |-> StopsDraining(a.se)]

\* if ctx.transcript.ended_at is None: ctx.transcript.ended_at = utcnow()
CloseTranscript(mem, now) ==
    IF IsNone(Transcript(mem).ended_at)
    THEN [mem EXCEPT !.ctx.transcript.ended_at = Some(now)]
    ELSE mem

\* finally: ctx.printer.finish(), guarded
Finally(mem, fault, pcOut, excOut) ==
    LET m1 == Logged(mem, Call("terminal", "finish", "")) IN
    IF Escapes(fault, "finish", TRUE)
    THEN [mem |-> m1, pc |-> "raised", raised |-> Some(Exc(fault.exc, "sink", None))]
    ELSE [mem |-> m1, pc |-> pcOut, raised |-> excOut]

\* The drain loop ended without an exception
ReturnTranscript(mem, fault, now) ==
    Finally(CloseTranscript(mem, now), fault, "returned", None)

\* The except clauses of run_stream_with_handler
Unwind(mem, exc, fault, now) ==
    IF exc.kind = "QernelAPIError"
    THEN Finally(CloseTranscript(mem, now), fault, "raised", Some(exc))
    ELSE IF exc.kind \in {"RuntimeError", "ValueError", "TypeError"}
    THEN LET m1 == CloseTranscript(mem, now) IN
         Finally(m1, fault, "raised",
                 Some(Exc("QernelAPIError", exc.origin, Some(to_jsonable(m1)))))
    ELSE Finally(mem, fault, "raised", Some(exc))

\* One iteration of the drain loop on the line read
DrainStep(mem, line, fault, now) ==
    LET p == process_stream_event(mem, stream_events(line), fault, now) IN
    IF IsSome(p.exc) THEN Unwind(p.mem, Val(p.exc), fault, now)
    ELSE IF p.done THEN ReturnTranscript(p.mem, fault, now)
    ELSE [mem |-> p.mem, pc |-> "draining", raised |-> None]

\* ------------------------------------------------------- time and settings

\* A number of seconds in the unit of time of the model, the half second
Seconds(s) == 2 * s

\* 0.5 (seconds), the least sleep
HalfSecond == 1

\* QernelConfig.stream_timeout and QernelConfig.timeout
stream_timeout == Seconds(120)
timeout == Seconds(60)

Min2(a, b) == IF a <= b THEN a ELSE b
Max2(a, b) == IF a >= b THEN a ELSE b

\* (2.0, 10.0) for the stream, load_artifact and the first artifact of a
\* batch, (1.0, 6.0) for the later artifacts of a batch
FirstBackoffRange == <<Seconds(2), Seconds(10)>>
LaterBackoffRange == <<Seconds(1), Seconds(6)>>

\* Artifact names a batch may hold
MaxArtifacts == 2

\* --------------------------------------------------------- the indicator

\* A fresh _Warmup with its fresh TerminalPrinter: active is
\* printer._active_name == "warmup", shown the notes the printer wrote,
\* starts the times the indicator was started
Warmup ==
    [connected |-> FALSE, finish_on_exit |-> TRUE, active |-> FALSE,
     shown |-> <<>>, starts |-> 0]

start_warmup(w) == [w EXCEPT !.active = TRUE, !.starts = @ + 1]

finish_warmup_always(w, success) ==
    [w EXCEPT !.active = FALSE,
              !.shown = Append(@, IF success THEN "connected" ELSE "failed")]

finish_warmup(w, success) ==
    IF ~w.active THEN w
    ELSE [w EXCEPT !.active = FALSE,
                   !.shown = Append(@, IF success THEN "connected" ELSE "failed")]

\* _Warmup.start, _Warmup.mark_connected, _Warmup.finish
start(w) == start_warmup(w)

mark_connected(w) ==
    IF ~w.connected THEN [finish_warmup(w, TRUE) EXCEPT !.connected = TRUE]
    ELSE w

finish(w) ==
    IF ~w.connected THEN finish_warmup(w, FALSE)
    ELSE IF w.finish_on_exit THEN finish_warmup(w, TRUE)
    ELSE w

\* ------------------------------------------------------------ one attempt

\* What the server may answer, and the content of a 200 for an artifact: a
\* blob that deserializes, one on which gzip/cloudpickle raise ValueError,
\* one on which gzip raises BadGzipFile (an OSError)
Statuses == {200, 404, 502, 503, 504}
Blobs == {"valid", "ValueError", "BadGzipFile"}

\* session.post / session.get raised a requests RequestException
TransportException == [exc |-> TRUE, status_code |-> 0, content |-> "none"]

HttpAnswer(status_code, content) ==
    [exc |-> FALSE, status_code |-> status_code, content |-> content]

PostAnswers ==
    {TransportException} \cup { HttpAnswer(s, "text") : s \in Statuses }

GetAnswers ==
    {TransportException}
        \cup { HttpAnswer(s, "text") : s \in Statuses \ {200} }
        \cup { HttpAnswer(200, b) : b \in Blobs }

\* How long an attempt takes: an answer comes at once or after half a
\* second, a transport exception at once or when the timeout expires
Durations(ans, attempt_timeout) ==
    IF ans.exc THEN {0, attempt_timeout} ELSE {0, HalfSecond}

\* QernelAPIError(message, status_code, response_text)
ApiError(message, status_code, response_text) ==
    [kind |-> "QernelAPIError", message |-> message, status_code |-> status_code,
     response_text |-> response_text, value |-> None]

\* Another exception, by the name of its class
OtherError(kind) ==
    [kind |-> kind, message |-> "", status_code |-> None,
     response_text |-> None, value |-> None]

Return(value) ==
    [kind |-> "return", message |-> "", status_code |-> None,
     response_text |-> None, value |-> Some(value)]

sse_post_once_retry_all(ans) ==
    IF ans.exc THEN [response |-> None, exc |-> None]
    ELSE IF ans.status_code = 200 THEN [response |-> Some(ans), exc |-> None]
    ELSE [response |-> None, exc |-> None]

sse_post_once(ans) ==
    IF ans.exc THEN [response |-> None, exc |-> None]
    ELSE IF ans.status_code = 200 THEN [response |-> Some(ans), exc |-> None]
    ELSE IF ans.status_code \in {502, 503, 504} THEN [response |-> None, exc |-> None]
    ELSE [response |-> None,
          exc |-> Some(ApiError("Streaming request failed", Some(ans.status_code),
                                Some(ans.content)))]

http_get_once_retry_200(ans) ==
    IF ans.exc THEN [response |-> None, exc |-> None]
    ELSE IF ans.status_code \in {200, 502, 503, 504} THEN [response |-> None, exc |-> None]
    ELSE [response |-> None,
          exc |-> Some(ApiError("Artifact download failed", Some(ans.status_code),
                                Some(ans.content)))]

http_get_once(ans) ==
    IF ans.exc THEN [response |-> None, exc |-> None]
    ELSE IF ans.status_code = 200 THEN [response |-> Some(ans), exc |-> None]
    ELSE IF ans.status_code \in {502, 503, 504} THEN [response |-> None, exc |-> None]
    ELSE [response |-> None,
          exc |-> Some(ApiError("Artifact download failed", Some(ans.status_code),
                                Some(ans.content)))]

\* ---------------------------------------------------------- the retry loops

\* if remaining <= 0: raise
TimedOut_late(remaining) == remaining <= 0 - Seconds(2)

TimedOut(remaining) == remaining <= 0

\* The timeout of one attempt: remaining for the POST,
\* max(min(remaining, max(self.config.timeout, 60)), 1.0) for the GET
PostTimeout(remaining) == remaining

per_attempt_timeout(remaining) ==
    Max2(Min2(remaining, Max2(timeout, Seconds(60))), Seconds(1))

\* sleep_s = min(backoff, max(0.5, remaining))
sleep_s(backoff, remaining) == Min2(backoff, Max2(HalfSecond, remaining))

\* Mutant: the backoff is doubled without a ceiling
NextBackoff_uncapped(backoff, max_backoff) == backoff * 2

\* backoff = min(backoff * 2.0, max_backoff)
NextBackoff(backoff, max_backoff) == Min2(backoff * 2, max_backoff)

\* The locals of a retry loop when it is entered
connect_sse_with_retry(start_time) ==
    [deadline |-> start_time + stream_timeout, backoff |-> Seconds(2),
     max_backoff |-> Seconds(10), sleep_s |-> 0]

get_with_retry_until_deadline(deadline, backoff_range) ==
    [deadline |-> deadline, backoff |-> Max2(HalfSecond, backoff_range[1]),
     max_backoff |-> backoff_range[2], sleep_s |-> 0]

\* deadline = time.perf_counter() + max(stream_timeout, timeout, 60)
ArtifactDeadline(t) == t + Max2(Max2(stream_timeout, timeout), Seconds(60))

\* --------------------------------------------------------------- artifacts

\* cloudpickle.loads(gzip.decompress(content)), ValueError and TypeError
\* turned into QernelAPIError
deserialize_artifact_content(content) ==
    CASE content = "valid" -> Return("object")
      [] content = "ValueError" -> ApiError("Artifact deserialize failed", None, None)
      [] OTHER -> OtherError(content)

\* The state of the call that the steps below work on
Net == [rpc |-> rpc, op |-> op, loop |-> loop, warm |-> warm, outcome |-> outcome]

\* The call ends with the result or the exception o; finally: warm.finish()
Exit(st, o) ==
    [st EXCEPT !.warm = finish(@),
               !.rpc = IF o.kind = "return" THEN "returned" ELSE "raised",
               !.outcome = Some(o)]

\* load_artifact once the retry loop has returned the response
load_artifact(st, response) ==
    Exit([st EXCEPT !.warm = mark_connected(@)],
         deserialize_artifact_content(response.content))

\* _download_and_deserialize_artifact once the retry loop has returned the
\* response: the object, or the exception
download_and_deserialize_artifact(st, response) ==
    [st |-> [st EXCEPT !.warm = mark_connected(@)],
     out |-> deserialize_artifact_content(response.content)]

load_artifacts_sequential_partial(st, response) ==
    LET d == download_and_deserialize_artifact(st, response)
        results == IF d.out.kind = "return" THEN st.op.results \cup {st.op.idx}
                   ELSE st.op.results
        s1 == [d.st EXCEPT !.op.results = results]
    IN IF st.op.idx + 1 < st.op.n
       THEN [s1 EXCEPT !.op.idx = @ + 1,
                       !.loop = get_with_retry_until_deadline(st.loop.deadline,
                                                              LaterBackoffRange)]
       ELSE Exit(s1, Return(results))

load_artifacts_sequential_rewarming(st, response) ==
    LET d == download_and_deserialize_artifact(st, response) IN
    IF d.out.kind # "return" THEN Exit(d.st, d.out)
    ELSE LET s1 == [d.st EXCEPT !.op.results = @ \cup {st.op.idx}] IN
         IF st.op.idx + 1 < st.op.n
         THEN [s1 EXCEPT !.op.idx = @ + 1,
                         !.warm = start(@),
                         !.loop = get_with_retry_until_deadline(st.loop.deadline,
                                                                LaterBackoffRange)]
         ELSE Exit(s1, Return(s1.op.results))

\* The body of the for loop of load_artifacts_sequential once the retry loop
\* has returned the response of the artifact at op.idx
load_artifacts_sequential(st, response) ==
    LET d == download_and_deserialize_artifact(st, response) IN
    IF d.out.kind # "return" THEN Exit(d.st, d.out)
    ELSE LET s1 == [d.st EXCEPT !.op.results = @ \cup {st.op.idx}] IN
         IF st.op.idx + 1 < st.op.n
         THEN [s1 EXCEPT !.op.idx = @ + 1,
                         !.loop = get_with_retry_until_deadline(st.loop.deadline,
                                                                LaterBackoffRange)]
         ELSE Exit(s1, Return(s1.op.results))

\* _post_sse_with_retry once the retry loop has returned the response
post_sse_with_retry(st, response) ==
    [st EXCEPT !.warm = mark_connected(@), !.rpc = "streaming"]

\* ------------------------------------------------------- the other parts

\* run_stream has not been called
NoGui == [ui |-> "idle", worker |-> "none", transcript |-> None, result |-> None]

\* QernelClient._create_run_context: the context of the k-th call on the client
create_run_context_shared(k) == 1

create_run_context(k) == k

\* The second call, made and not yet reading: its own context when
\* create_run_context gave it one, and the lines it has read
NoPeer ==
    [pc |-> "draining", context |-> create_run_context(2),
     ctx |-> [transcript |-> AlgorithmTranscript, pipeline_done_summary |-> None,
              viz_sink |-> FALSE],
     mheap |-> <<MethodsPayload>>, rheap |-> <<>>, calls |-> <<>>,
     received |-> <<>>, raised |-> None]

\* summarize_tasks has not been called
NoTask == [doc |-> None, analysis |-> None, out |-> None]

\* ------------------------------------------------- the connection's actions

streamvars == <<pc, clock, ctx, mheap, rheap, calls, received, raised, unread>>

NoCall == [name |-> "none", n |-> 0, idx |-> 0, results |-> {}]
NoLoop == [deadline |-> 0, backoff |-> 0, max_backoff |-> 0, sleep_s |-> 0]
NoRequests == [requests |-> 0, transient |-> 0, ok |-> 0, last |-> None]

\* An answer that the spec calls retryable: 502, 503, 504 or a transport
\* exception
IsTransient(ans) == ans.exc \/ ans.status_code \in {502, 503, 504}

\* An answer with status 200
IsOk(ans) == ~ans.exc /\ ans.status_code = 200

NetBecomes(st) ==
    /\ rpc' = st.rpc
    /\ op' = st.op
    /\ loop' = st.loop
    /\ warm' = st.warm
    /\ outcome' = st.outcome

\* The stream of Spec and ScenarioSpec has been opened: a 200 at the first
\* attempt
StreamOpened ==
    /\ perf_counter = 0
    /\ rpc = "streaming"
    /\ op = [NoCall EXCEPT !.name = "stream"]
    /\ loop = connect_sse_with_retry(0)
    /\ warm = mark_connected(start(Warmup))
    /\ http = [requests |-> 1, transient |-> 0, ok |-> 1,
               last |-> Some(HttpAnswer(200, "text"))]
    /\ outcome = None

\* Nothing has been called yet
NetIdle ==
    /\ pc = "draining"
    /\ clock = 0
    /\ ctx = [transcript |-> AlgorithmTranscript, pipeline_done_summary |-> None,
              viz_sink |-> FALSE]
    /\ mheap = <<MethodsPayload>>
    /\ rheap = <<>>
    /\ calls = <<>>
    /\ received = <<>>
    /\ raised = None
    /\ unread = FALSE
    /\ perf_counter = 0
    /\ rpc = "idle"
    /\ op = NoCall
    /\ loop = NoLoop
    /\ warm = Warmup
    /\ http = NoRequests
    /\ outcome = None

NetInit ==
    /\ NetIdle
    /\ gui = NoGui
    /\ peer = NoPeer
    /\ task = NoTask

\* stream_events reaches _post_sse_with_retry: warm.start(), start = perf_counter()
CallStream ==
    /\ rpc = "idle"
    /\ NetBecomes([Net EXCEPT !.rpc = "top",
                              !.op = [NoCall EXCEPT !.name = "stream"],
                              !.warm = start(@),
                              !.loop = connect_sse_with_retry(perf_counter)])
    /\ UNCHANGED <<perf_counter, http>>
    /\ UNCHANGED streamvars
    /\ UNCHANGED elsewhere

\* load_artifact up to its try
CallLoadArtifact ==
    /\ rpc = "idle"
    /\ NetBecomes([Net EXCEPT !.rpc = "top",
                              !.op = [NoCall EXCEPT !.name = "load_artifact", !.n = 1],
                              !.warm = start(@),
                              !.loop = get_with_retry_until_deadline(
                                           ArtifactDeadline(perf_counter), FirstBackoffRange)])
    /\ UNCHANGED <<perf_counter, http>>
    /\ UNCHANGED streamvars
    /\ UNCHANGED elsewhere

\* load_artifacts_sequential up to its for loop; no names, no indicator
CallLoadArtifactsSequential ==
    /\ rpc = "idle"
    /\ \E n \in 0..MaxArtifacts :
         LET call == [NoCall EXCEPT !.name = "load_artifacts_sequential", !.n = n] IN
         IF n = 0
         THEN NetBecomes([Net EXCEPT !.rpc = "returned", !.op = call,
                                     !.outcome = Some(Return({}))])
         ELSE NetBecomes([Net EXCEPT !.rpc = "top", !.op = call,
                                     !.warm = start(@),
                                     !.loop = get_with_retry_until_deadline(
                                                  ArtifactDeadline(perf_counter), FirstBackoffRange)])
    /\ UNCHANGED <<perf_counter, http>>
    /\ UNCHANGED streamvars
    /\ UNCHANGED elsewhere

\* The top of an iteration of the retry loop when no time remains
TimeoutAtTop ==
    /\ rpc = "top"
    /\ TimedOut(loop.deadline - perf_counter)
    /\ NetBecomes(Exit(Net,
          ApiError(IF op.name = "stream"
                   THEN "Streaming request timed out while warming up origin"
                   ELSE "Artifact download timed out while warming up origin",
                   None, None)))
    /\ UNCHANGED <<perf_counter, http>>
    /\ UNCHANGED streamvars
    /\ UNCHANGED elsewhere

\* The request ans was answered after d: the history of the requests
Requested(ans, d) ==
    /\ perf_counter' = perf_counter + d
    /\ http' = [requests |-> http.requests + 1,
                transient |-> http.transient + (IF IsTransient(ans) THEN 1 ELSE 0),
                ok |-> http.ok + (IF IsOk(ans) THEN 1 ELSE 0),
                last |-> Some(ans)]

\* if response is not None: return response; else sleep_s = ...
ToSleep(st, remaining) ==
    [st EXCEPT !.rpc = "sleeping", !.loop.sleep_s = sleep_s(st.loop.backoff, remaining)]

\* An iteration of _connect_sse_with_retry, to the return, the raise or the sleep
PostAttempt ==
    /\ rpc = "top"
    /\ op.name = "stream"
    /\ LET remaining == loop.deadline - perf_counter IN
       /\ ~TimedOut(remaining)
       /\ \E ans \in PostAnswers :
            \E d \in Durations(ans, PostTimeout(remaining)) :
               \E r \in {sse_post_once(ans)} :
                  /\ Requested(ans, d)
                  /\ NetBecomes(IF IsSome(r.exc) THEN Exit(Net, Val(r.exc))
                                ELSE IF IsSome(r.response)
                                THEN post_sse_with_retry(Net, Val(r.response))
                                ELSE ToSleep(Net, remaining))
    /\ UNCHANGED streamvars
    /\ UNCHANGED elsewhere

\* An iteration of _get_with_retry_until_deadline, and what load_artifact or
\* load_artifacts_sequential do with the response when it returns one
GetAttempt ==
    /\ rpc = "top"
    /\ op.name \in {"load_artifact", "load_artifacts_sequential"}
    /\ LET remaining == loop.deadline - perf_counter IN
       /\ ~TimedOut(remaining)
       /\ \E ans \in GetAnswers :
            \E d \in Durations(ans, per_attempt_timeout(remaining)) :
               \E r \in {http_get_once(ans)} :
                  /\ Requested(ans, d)
                  /\ NetBecomes(IF IsSome(r.exc) THEN Exit(Net, Val(r.exc))
                                ELSE IF IsSome(r.response)
                                THEN IF op.name = "load_artifact"
                                     THEN load_artifact(Net, Val(r.response))
                                     ELSE load_artifacts_sequential(Net, Val(r.response))
                                ELSE ToSleep(Net, remaining))
    /\ UNCHANGED streamvars
    /\ UNCHANGED elsewhere

\* time.sleep(sleep_s); backoff = min(backoff * 2.0, max_backoff)
Sleep ==
    /\ rpc = "sleeping"
    /\ perf_counter' = perf_counter + loop.sleep_s
    /\ NetBecomes([Net EXCEPT !.rpc = "top",
                              !.loop.backoff = NextBackoff(@, loop.max_backoff)])
    /\ UNCHANGED http
    /\ UNCHANGED streamvars
    /\ UNCHANGED elsewhere

\* The lines of the response end, the consumer closes the generator, or
\* iter_lines raises: finally: warm.finish()
StreamEnds ==
    /\ rpc = "streaming"
    /\ \E o \in {Return("closed"), OtherError("RequestException")} :
         NetBecomes(Exit(Net, o))
    /\ UNCHANGED <<perf_counter, http>>
    /\ UNCHANGED streamvars
    /\ UNCHANGED elsewhere

NetNext ==
    \/ CallStream
    \/ CallLoadArtifact
    \/ CallLoadArtifactsSequential
    \/ TimeoutAtTop
    \/ PostAttempt
    \/ GetAttempt
    \/ Sleep
    \/ StreamEnds

NetSpec == NetInit /\ [][NetNext]_vars

\* The scheduler runs the call on: no step of it waits for ever
NetFairSpec == NetSpec /\ WF_vars(NetNext)

\* ------------------------------------------------------ the stream's actions

Init ==
    /\ pc = "draining"
    /\ clock = 0
    /\ ctx \in { [transcript |-> AlgorithmTranscript, pipeline_done_summary |-> None,
                  viz_sink |-> v] : v \in BOOLEAN }
    /\ mheap = <<MethodsPayload>>
    /\ rheap = <<>>
    /\ calls = <<>>
    /\ received = <<>>
    /\ raised = None
    /\ unread = FALSE
    /\ StreamOpened
    /\ gui = NoGui
    /\ peer = NoPeer
    /\ task = NoTask

Becomes(out, now) ==
    /\ pc' = out.pc
    /\ ctx' = out.mem.ctx
    /\ mheap' = out.mem.mheap
    /\ rheap' = out.mem.rheap
    /\ calls' = out.mem.calls
    /\ raised' = out.raised
    /\ clock' = now
    /\ UNCHANGED netvars
    /\ UNCHANGED elsewhere

\* The client reads the next line the server sent and folds it
Deliver(line) ==
    /\ pc = "draining"
    /\ \E fault \in FaultsOf(line.obj), d \in Ticks :
         \E out \in {DrainStep(Mem, line, fault, clock + d)} :
            /\ out.pc = "draining" => d = 0 /\ fault = NoFault
            /\ Becomes(out, clock + d)
    /\ received' = Append(received, line)
    /\ UNCHANGED unread

ReadEvent == Len(received) < MaxLines /\ \E line \in EventLines : Deliver(line)

ReadInvalid == Len(received) < MaxLines /\ \E line \in InvalidLines : Deliver(line)

ReadOpaque == Len(received) < MaxLines /\ \E line \in OpaqueLines : Deliver(line)

\* The response body ends
StreamEof ==
    /\ pc = "draining"
    /\ \E d \in Ticks :
         \E out \in {ReturnTranscript(Mem, NoFault, clock + d)} :
            Becomes(out, clock + d)
    /\ UNCHANGED <<received, unread>>

\* response.iter_lines raises (connection reset, chunked-encoding error)
TransportError ==
    /\ pc = "draining"
    /\ \E d \in Ticks :
         \E out \in {Unwind(Mem, Exc("RequestException", "transport", None),
                            NoFault, clock + d)} :
            Becomes(out, clock + d)
    /\ UNCHANGED <<received, unread>>

\* The server goes on sending after the client stopped reading
ServerSendsOn ==
    /\ pc # "draining"
    /\ ~unread
    /\ unread' = TRUE
    /\ UNCHANGED <<pc, clock, ctx, mheap, rheap, calls, received, raised>>
    /\ UNCHANGED netvars
    /\ UNCHANGED elsewhere

Next ==
    \/ ReadEvent
    \/ ReadInvalid
    \/ ReadOpaque
    \/ StreamEof
    \/ TransportError
    \/ ServerSendsOn

Spec == Init /\ [][Next]_vars

\* ------------------------------------------------- the scenario of section 8
\* The server follows the script start, status get_name:ok, status get_type:ok,
\* status build_circuit:ok, result, done; at each place it picks one of the
\* events below, and it may send lines that are no events in between.

Done == Obj(Some("done"), None, None, None, None, None)

ScenarioScript ==
    << { Obj(Some("start"), None, None, None, None, None) },
       { Status(<<"get_name", "ok">>, Some(Str("Bell")), None, None),
         Status(<<"get_name", "ok">>, None, None, None) },
       { Status(<<"get_type", "ok">>, Some(Str("demo")), None, None),
         Status(<<"get_type", "ok", "cached">>, Some(Num(7)), None, None) },
       { Status(<<"build_circuit", "ok">>, None, Some(Str("H;CNOT")), Some("Circuit")),
         Status(<<"build_circuit", "ok">>, None, None, None) },
       { Obj(Some("result"), None, None, None, None, Some(Response1)),
         Obj(Some("result"), None, None, None, None, Some(Response2)) },
       { Done } >>

Folded == Len(ctx.transcript.events)

ScenarioEvent ==
    /\ Folded < Len(ScenarioScript)
    /\ \E o \in ScenarioScript[Folded + 1] : Deliver(Line(TRUE, "object", o))

ScenarioNoise ==
    /\ Len(received) - Folded < MaxNoise
    /\ \E line \in OpaqueLines \cup InvalidLines : Deliver(line)

ScenarioNext ==
    \/ ScenarioEvent
    \/ ScenarioNoise
    \/ StreamEof
    \/ TransportError
    \/ ServerSendsOn

ScenarioSpec == Init /\ [][ScenarioNext]_vars

\* ------------------------------------------------ run_stream with a GUI sink
\* run_stream(visualize=True): vis.start_and_run(on_start=_consume_stream)
\* runs the UI loop on the calling thread and calls _consume_stream on a
\* worker once the UI is ready; _consume_stream runs run_stream_with_handler
\* on the stream of the scenario.

\* What run_stream gives its caller: where the transcript comes from and how
\* it ended
GuiTranscript(source, t) ==
    [source |-> source, ended_reason |-> t.ended_reason, events |-> Len(t.events)]

\* _consume_stream when run_stream_with_handler has ended: the transcript is
\* kept, RuntimeError, ValueError and TypeError are swallowed, any other
\* exception leaves the callback
consume_stream(g, ended, exc, t) ==
    IF ended = "returned"
    THEN [g EXCEPT !.worker = "ended", !.transcript = Some(GuiTranscript("consumer", t))]
    ELSE IF Val(exc).kind \in {"RuntimeError", "ValueError", "TypeError"}
    THEN [g EXCEPT !.worker = "ended"]
    ELSE [g EXCEPT !.worker = "failed"]

\* if transcript is None: transcript = AlgorithmTranscript(); return transcript
run_stream(g) ==
    [g EXCEPT !.result =
        IF IsSome(g.transcript) THEN g.transcript
        ELSE Some(GuiTranscript("default", AlgorithmTranscript))]

GuiUnchanged == UNCHANGED <<streamvars, netvars, peer, task>>

\* vis.start_and_run is called: the UI loop runs on the calling thread
UiStarts ==
    /\ gui.ui = "idle"
    /\ gui' = [gui EXCEPT !.ui = "running"]
    /\ GuiUnchanged

\* The UI is ready: on_start is called on the worker
OnStart ==
    /\ gui.ui = "running"
    /\ gui.worker = "none"
    /\ gui' = [gui EXCEPT !.worker = "running"]
    /\ GuiUnchanged

\* The server sends an error event in place of the next event of the script
ScenarioError ==
    Deliver(Line(TRUE, "object", Obj(Some("error"), None, None, None, None, None)))

\* The worker consumes the stream
GuiConsumes ==
    /\ gui.worker = "running"
    /\ \/ ScenarioEvent
       \/ ScenarioNoise
       \/ ScenarioError
       \/ StreamEof
       \/ TransportError

\* run_stream_with_handler has returned or raised in _consume_stream
ConsumeStreamEnds ==
    /\ gui.worker = "running"
    /\ pc \in {"returned", "raised"}
    /\ gui' = consume_stream(gui, pc, raised, ctx.transcript)
    /\ GuiUnchanged

\* The UI loop ends (the window is closed) and start_and_run returns,
\* whatever the worker is doing
UiLoopEnds ==
    /\ gui.ui = "running"
    /\ gui.worker # "none"
    /\ gui' = [gui EXCEPT !.ui = "returned"]
    /\ GuiUnchanged

\* start_and_run hands the exception that left on_start to its caller, and
\* run_stream raises it
UiLoopRaises ==
    /\ gui.ui = "running"
    /\ gui.worker = "failed"
    /\ gui' = [gui EXCEPT !.ui = "raised"]
    /\ GuiUnchanged

\* run_stream returns
RunStreamReturns ==
    /\ gui.ui = "returned"
    /\ IsNone(gui.result)
    /\ gui' = run_stream(gui)
    /\ GuiUnchanged

GuiNext ==
    \/ UiStarts
    \/ OnStart
    \/ GuiConsumes
    \/ ConsumeStreamEnds
    \/ UiLoopEnds
    \/ UiLoopRaises
    \/ RunStreamReturns
    \/ ServerSendsOn

GuiSpec == Init /\ [][GuiNext]_vars

\* ------------------------------------------- two calls on the same client
\* Two calls of run_stream_with_handler run on one QernelClient; each reads
\* its own response body, line by line, and the steps of the two interleave.
\* The first call works on ctx, mheap, rheap and calls, the second on the
\* context _create_run_context gave it.

\* Lines either call may read
MaxConcLines == 2

ConcLines ==
    { Line(TRUE, "object", o) :
        o \in { Obj(Some("start"), None, None, None, None, None),
                Status(<<"pipeline", "done">>, None, Some(Map(S1)), None),
                Status(<<"pipeline", "done">>, None, Some(Map(S2)), None),
                Obj(Some("result"), None, None, None, None, Some(Response1)),
                Done } }

\* The memory the handlers of the second call work on
PeerMem ==
    IF peer.context = 1 THEN Mem
    ELSE [ctx |-> peer.ctx, mheap |-> peer.mheap, rheap |-> peer.rheap,
          calls |-> peer.calls]

\* The second call has made a step with the outcome out
PeerBecomes(out, lines) ==
    /\ IF peer.context = 1
       THEN /\ ctx' = out.mem.ctx
            /\ mheap' = out.mem.mheap
            /\ rheap' = out.mem.rheap
            /\ calls' = out.mem.calls
            /\ peer' = [peer EXCEPT !.pc = out.pc, !.raised = out.raised,
                                    !.received = lines]
       ELSE /\ peer' = [peer EXCEPT !.pc = out.pc, !.raised = out.raised,
                                    !.received = lines,
                                    !.ctx = out.mem.ctx, !.mheap = out.mem.mheap,
                                    !.rheap = out.mem.rheap, !.calls = out.mem.calls]
            /\ UNCHANGED <<ctx, mheap, rheap, calls>>
    /\ UNCHANGED <<pc, received, raised, unread, gui, task>>
    /\ UNCHANGED netvars

\* The first call reads a line of its stream
ConcReads ==
    /\ Len(received) < MaxConcLines
    /\ \E line \in ConcLines : Deliver(line)

\* The second call reads a line of its stream
PeerReads ==
    /\ peer.pc = "draining"
    /\ Len(peer.received) < MaxConcLines
    /\ \E line \in ConcLines, d \in Ticks :
         \E out \in {DrainStep(PeerMem, line, NoFault, clock + d)} :
            /\ out.pc = "draining" => d = 0
            /\ clock' = clock + d
            /\ PeerBecomes(out, Append(peer.received, line))

\* The stream of the second call ends
PeerEof ==
    /\ peer.pc = "draining"
    /\ \E d \in Ticks :
         \E out \in {ReturnTranscript(PeerMem, NoFault, clock + d)} :
            /\ clock' = clock + d
            /\ PeerBecomes(out, peer.received)

ConcNext ==
    \/ ConcReads
    \/ StreamEof
    \/ PeerReads
    \/ PeerEof

ConcSpec == Init /\ [][ConcNext]_vars

\* ------------------------------------------------- a call of summarize_tasks
\* summarize_tasks is called once, on a docstring and an analysis that the
\* server sent.

\* Pieces a docstring is made of, and how many of them
DocPieces == {"Resource", "ZNE", "shots", "error", " ", "mitigation"}
MaxDocPieces == 3

Docs == UNION { [1..n -> DocPieces] : n \in 0..MaxDocPieces }

\* Steps the server reports in analysis.pipeline
StepQualtran ==
    Map([name |-> <<"resource", ".", "qualtran">>,
         output |-> Map([summary |-> Map([t_count |-> Num(10)])])])
StepZne ==
    Map([name |-> <<"mitigation", ".", "mitiq", ".", "zne">>,
         output |-> Map([mitigated_value |-> Float(1, 2)])])
StepSimulator ==
    Map([name |-> <<"Execute", ".", "Simulator">>,
         output |-> Map([counts |-> Map([zeros |-> Num(4), ones |-> Num(6)]),
                         shots |-> Num(10), backend |-> Str("cpu")])])
StepUnknownFields ==
    Map([name |-> <<"resource", ".", "extra">>,
         output |-> Map([foo |-> Num(1)])])
StepTextOutput ==
    Map([name |-> <<"mitiq">>, output |-> Str("n/a")])
StepNoMap == Str("oops")

Steps == {StepQualtran, StepZne, StepSimulator, StepUnknownFields,
          StepTextOutput, StepNoMap}

\* Steps a pipeline has at most
MaxSteps == 2

Pipelines == UNION { [1..n -> Steps] : n \in 0..MaxSteps }

Analyses ==
    {None, Some([summary |-> Map(R)]), Some([pipeline |-> Str("none")])}
      \cup { Some([pipeline |-> List(p)]) : p \in Pipelines }

TaskInit ==
    /\ NetIdle
    /\ gui = NoGui
    /\ peer = NoPeer
    /\ \E doc \in Docs, analysis \in Analyses :
         task = [doc |-> doc, analysis |-> analysis, out |-> None]

\* What the call gives: a list of entries, or the exception it raises
TaskReturn(entries) == [exc |-> None, ret |-> entries]
TaskRaise(exc) == [exc |-> Some(exc), ret |-> <<>>]

SummarizeTasks ==
    /\ IsNone(task.out)
    /\ task' = [task EXCEPT !.out =
                  Some(IF summarize_tasks_raises(task.doc, task.analysis)
                       THEN TaskRaise("AttributeError")
                       ELSE TaskReturn(summarize_tasks(task.doc, task.analysis)))]
    /\ UNCHANGED <<streamvars, netvars, gui, peer>>

TaskNext == SummarizeTasks

TaskSpec == TaskInit /\ [][TaskNext]_vars

\* ------------------------------------------- a stream with a pipeline analysis
\* The stream of a run whose result carries an analysis with a pipeline, the
\* entries of which the server chooses.

\* A response whose build_circuit docstring names a task and whose analysis
\* has the pipeline
ResponseWithPipeline(doc, pipeline) ==
    [class_ |-> Some("BellAlgo"), class_doc |-> "Bell pair",
     methods |-> [MethodsPayload EXCEPT !.build_circuit_doc = doc],
     analysis |-> Some([pipeline |-> List(pipeline)])]

PipelineResponses ==
    { ResponseWithPipeline(<<"Resource">>, <<StepQualtran>>),
      ResponseWithPipeline(<<"Resource">>, <<StepQualtran, StepNoMap>>),
      ResponseWithPipeline(<<>>, <<StepNoMap>>),
      ResponseWithPipeline(<<"ZNE">>, <<StepTextOutput>>) }

PipelineLines ==
    { Line(TRUE, "object", o) :
        o \in { Obj(Some("start"), None, None, None, None, None), Done }
               \cup { Obj(Some("result"), None, None, None, None, Some(resp)) :
                        resp \in PipelineResponses } }

\* Lines the stream of such a run has at most
MaxPipelineLines == 3

ReadPipelineEvent ==
    /\ Len(received) < MaxPipelineLines
    /\ \E line \in PipelineLines : Deliver(line)

PipelineNext ==
    \/ ReadPipelineEvent
    \/ StreamEof

PipelineSpec == Init /\ [][PipelineNext]_vars

\* ------------------------------------------------------------------- claims

T == ctx.transcript

\* The MethodsPayload the transcript refers to
Methods == mheap[T.methods]

\* A line that carries a valid event: "data: " and the JSON of a StreamEvent
IsEventLine(line) ==
    /\ line.prefix
    /\ line.syntax = "object"
    /\ IsSome(line.obj.type)
    /\ Val(line.obj.type) \in EventTypes

IsEventOfType(line, type) == IsEventLine(line) /\ line.obj.type = Some(type)

\* The places of the valid events among the lines read
ValidPlaces == { i \in 1..Len(received) : IsEventLine(received[i]) }

ValidCount == Cardinality(ValidPlaces)

LastLine == received[Len(received)]

\* C1: if run_stream_with_handler returns normally, the returned transcript
\* has ended_reason = done (a stream that ends without done or error must
\* raise instead of returning).
C1_AllOrNothing == pc = "returned" => T.ended_reason = Some("done")

\* C2: once a valid error event has been read, at place k among the valid
\* events, the call has raised a QernelAPIError whose transcript snapshot has
\* ended_reason = error and exactly k+1 events; the error event is the last
\* event folded and nothing is dispatched to a sink after it.
C2_FailFast ==
    (Len(received) > 0 /\ IsEventOfType(LastLine, "error")) =>
        /\ pc = "raised"
        /\ Val(raised).kind = "QernelAPIError"
        /\ Val(raised).origin = "error_event"
        /\ IsSome(Val(raised).transcript)
        /\ Val(Val(raised).transcript).ended_reason = Some("error")
        /\ Len(Val(Val(raised).transcript).events) = ValidCount
        /\ Len(T.events) = ValidCount
        /\ T.events[Len(T.events)].type = "error"
        /\ \A i \in 1..(Len(T.events) - 1) : T.events[i].type # "error"
        /\ calls[Len(calls)] = Call("terminal", "finish", "")
        /\ Cardinality({ i \in 1..Len(calls) : calls[i].method = "finish" }) = 1

C2_Witness ==
    /\ Len(received) = 3
    /\ IsEventOfType(received[1], "start")
    /\ IsEventOfType(received[2], "status")
    /\ IsEventOfType(received[3], "error")
    /\ pc = "raised"
    /\ unread

\* C3: once the done event of a stream of valid events has been read, the call
\* has returned a transcript with ended_reason = done and a non-null ended_at
\* that is at or after started_at.
C3_DoneOrdering ==
    (Len(received) > 0 /\ IsEventOfType(LastLine, "done")) =>
        /\ pc = "returned"
        /\ T.ended_reason = Some("done")
        /\ IsSome(T.ended_at)
        /\ Val(T.ended_at) >= T.started_at
        /\ Val(T.ended_at) = clock

C3_Witness ==
    /\ Len(received) = 3
    /\ \A i \in 1..3 : IsEventLine(received[i])
    /\ IsEventOfType(received[3], "done")
    /\ pc = "returned"
    /\ Val(T.ended_at) > T.started_at

DoneFolded == Len(T.events) > 0 /\ T.events[Len(T.events)].type = "done"

\* C4: a done event ends processing at once: when done has been folded the
\* call has returned, and from then on no line is read, no transcript field
\* or object changes and no sink is called, whatever the server still sends.
C4_DoneEndsProcessing ==
    /\ [](DoneFolded => pc = "returned")
    /\ [][DoneFolded => UNCHANGED <<pc, ctx, mheap, rheap, calls, received, raised>>]_vars

C4_Witness ==
    /\ DoneFolded
    /\ Len(received) < MaxLines
    /\ unread

\* The event as the wire carried it, without its response
Bare(e) == [e EXCEPT !.response = None]

C6_InvalidEventSkipped == ~(pc = "raised" /\ Val(raised).origin = "validation")

\* C7: an exception raised by a sink method while an event is handled is
\* caught and ignored: the call never raises because of it.
C7_SinkFailuresIgnored == ~(pc = "raised" /\ Val(raised).origin = "sink")

\* A step folded a result event that carries a response
ResultFolded ==
    /\ Len(T'.events) = Len(T.events) + 1
    /\ T'.events[Len(T'.events)].type = "result"
    /\ IsSome(T'.events[Len(T'.events)].response)

IsScenarioA(resultObj) ==
    /\ Len(received) = 6
    /\ received[1].obj = Obj(Some("start"), None, None, None, None, None)
    /\ received[2].obj = Status(<<"get_name", "ok">>, Some(Str("Bell")), None, None)
    /\ received[3].obj = Status(<<"get_type", "ok">>, Some(Str("demo")), None, None)
    /\ received[4].obj =
         Status(<<"build_circuit", "ok">>, None, Some(Str("H;CNOT")), Some("Circuit"))
    /\ received[5].obj = resultObj
    /\ received[6].obj = Done
    /\ \A i \in 1..6 : received[i].prefix

ScenarioResults == ScenarioScript[5]

LastEvent == T.events[Len(T.events)]

LastStage == IF IsSome(LastEvent.stage) THEN Val(LastEvent.stage) ELSE <<>>

\* Its first two segments
StagePrefix == IF Len(LastStage) >= 2 THEN <<LastStage[1], LastStage[2]>> ELSE <<>>

\* The text of the result a status event carries
ResultText(o) ==
    CASE Val(o) = Str("Bell") -> "Bell"
      [] Val(o) = Str("demo") -> "demo"
      [] Val(o) = Num(7) -> "7"

\* The handler of the last event folded ran to its end
HandlerCompleted == Len(T.events) > 0 /\ pc = "draining"

\* The folding rule for status events, after the handler of such an event
StatusFoldingRule ==
    (HandlerCompleted /\ LastEvent.type = "status") =>
        /\ (StagePrefix = <<"get_name", "ok">> /\ IsSome(LastEvent.result))
             => Methods.get_name_result = Some(ResultText(LastEvent.result))
        /\ (StagePrefix = <<"get_type", "ok">> /\ IsSome(LastEvent.result))
             => Methods.get_type_result = Some(ResultText(LastEvent.result))
        /\ (StagePrefix = <<"build_circuit", "ok">> /\ IsSome(LastEvent.summary))
             => Methods.build_circuit_summary = LastEvent.summary
        /\ (StagePrefix = <<"build_circuit", "ok">> /\ IsSome(LastEvent.obj_type))
             => Methods.build_circuit_type = LastEvent.obj_type

ResultPlaces ==
    { i \in 1..Len(received) :
        IsEventOfType(received[i], "result") /\ IsSome(received[i].obj.response) }

\* The places before place i of the pipeline:done status events that carry a
\* structured summary
StashPlaces(i) ==
    { j \in 1..(i - 1) :
        /\ IsEventOfType(received[j], "status")
        /\ received[j].obj.stage = Some(<<"pipeline", "done">>)
        /\ IsMapping(received[j].obj.summary) }

Max(S) == CHOOSE x \in S : \A y \in S : y <= x

\* analysis.summary of a response, the empty map when there is none
SummaryOf(analysis) ==
    IF IsSome(analysis) /\ "summary" \in DOMAIN Val(analysis)
    THEN Val(analysis)["summary"] ELSE EmptyDict

\* C10: when pipeline:done status events with a structured summary precede a
\* result event, the transcript's response has as analysis.summary the union
\* of the result's own summary R and the summary S of the last of them: every
\* key of S with its value in S, every other key of R with its value in R
\* ({a:1} and {b:2} give {a:1, b:2}).
C10_StashThenMerge ==
    (IsSome(T.response) /\ StashPlaces(Max(ResultPlaces)) # {}) =>
        LET i == Max(ResultPlaces)
            S == Val(received[Max(StashPlaces(i))].obj.summary).v
            Rsum == SummaryOf(received[i].obj.response[1].analysis)
            merged == SummaryOf(rheap[Val(T.response)].analysis)
        IN /\ DOMAIN merged = (DOMAIN S) \cup (DOMAIN Rsum)
           /\ \A k \in DOMAIN S : merged[k] = S[k]
           /\ \A k \in (DOMAIN Rsum) \ (DOMAIN S) : merged[k] = Rsum[k]
           /\ (S = [a |-> 1] /\ Rsum = [b |-> 2]) => merged = [a |-> 1, b |-> 2]

C10_Witness ==
    /\ Len(received) = 3
    /\ received[1].obj = Status(<<"pipeline", "done">>, None, Some(Map(S2)), None)
    /\ received[2].obj = Status(<<"pipeline", "done">>, None, Some(Map(S1)), None)
    /\ received[3].obj = Obj(Some("result"), None, None, None, None, Some(Response1))
    /\ \A i \in 1..3 : received[i].prefix
    /\ SummaryOf(rheap[Val(T.response)].analysis) = [a |-> 1, b |-> 2]

\* The call is over: it returned or it raised
CallEnded == pc \in {"returned", "raised"}

\* C11, the half that the code keeps: once ended_at is set, no later step of
\* the call overwrites it.
C11_NeverOverwritten == [][IsSome(T.ended_at) => T.ended_at' = T.ended_at]_vars

\* C11: in every run ended_at goes from null to a value at the first terminal
\* condition (done event, error event or exception unwinding the consumer):
\* when the call has ended, by returning or by raising, ended_at is set.
C11_EndedAtWrittenOnce == CallEnded => IsSome(T.ended_at)

\* ------------------------------------------- claims about the connection

\* The step made a request: the answer is the last one of the history
Attempted == http'.requests = http.requests + 1

LastAnswer == Val(http.last)

CallOver == rpc \in {"returned", "raised"}

TimeoutError == outcome \in
    { Some(ApiError("Streaming request timed out while warming up origin", None, None)),
      Some(ApiError("Artifact download timed out while warming up origin", None, None)) }

\* C12: an attempt answered 200 ends the retry loop with the response (the
\* indicator is marked connected, no sleep follows); one answered 502, 503,
\* 504 or by a transport exception leads to a sleep and then to the top of
\* the loop again, with no request made meanwhile; one answered by another
\* status makes the call raise a QernelAPIError that carries the status code
\* and the body of the answer, and no request or sleep is made after it.
C12_RetryClassification ==
    [][ /\ Attempted =>
             LET ans == Val(http'.last) IN
             /\ (~ans.exc /\ ans.status_code = 200) =>
                    /\ rpc' # "sleeping"
                    /\ warm'.connected
                    /\ outcome' \notin {Some(ApiError(m, Some(200), Some(ans.content))) :
                                          m \in {"Streaming request failed",
                                                 "Artifact download failed"}}
             /\ IsTransient(ans) => rpc' = "sleeping" /\ outcome' = None
             /\ (~ans.exc /\ ans.status_code \notin {200, 502, 503, 504}) =>
                    /\ rpc' = "raised"
                    /\ Val(outcome').kind = "QernelAPIError"
                    /\ Val(outcome').status_code = Some(ans.status_code)
                    /\ Val(outcome').response_text = Some(ans.content)
        /\ rpc = "sleeping" => rpc' = "top" /\ http' = http
        /\ rpc = "raised" => http' = http /\ perf_counter' = perf_counter
      ]_vars

C12_Witness ==
    /\ rpc = "raised"
    /\ op.name = "stream"
    /\ http.transient >= 2
    /\ LastAnswer = HttpAnswer(404, "text")
    /\ Val(outcome).status_code = Some(404)

\* C13: the retry loop ends (the call returns or raises); when every attempt
\* was answered by 502, 503, 504 or a transport exception the call has raised
\* the timeout QernelAPIError with no time remaining; and no attempt is made
\* at a top of the loop where the remaining time is <= 0, so that the
\* timeout is raised at the first such top.
C13_RetryTerminates ==
    /\ <>CallOver
    /\ [](CallOver /\ http.requests > 0 /\ http.transient = http.requests =>
            /\ rpc = "raised"
            /\ TimeoutError
            /\ loop.deadline - perf_counter <= 0)
    /\ [][Attempted => loop.deadline - perf_counter > 0]_vars

C13_Witness ==
    /\ rpc = "raised"
    /\ TimeoutError
    /\ http.requests >= 8
    /\ http.transient = http.requests
    /\ LastAnswer.status_code = 503

\* C14: every sleep between attempts is at most the time that remains until
\* the deadline when the sleep starts, so that the attempts and sleeps of a
\* retry loop never take more than the budget.
C14_SleepWithinBudget ==
    /\ rpc = "sleeping" => loop.sleep_s <= loop.deadline - perf_counter
    /\ perf_counter <= loop.deadline

\* C15: on every exit of the stream opener, load_artifact and
\* load_artifacts_sequential the indicator that was started has been
\* finalized exactly once: it shows one note, "connected" if a 200 was
\* received and "failed" if none was, and is no longer active; at no moment
\* has it shown more than one note, so "connected" is shown at most once and
\* never after "failed".
C15_IndicatorFinalizedOnce ==
    /\ Len(warm.shown) <= 1
    /\ (CallOver /\ warm.starts > 0) =>
          /\ ~warm.active
          /\ warm.shown = << IF http.ok > 0 THEN "connected" ELSE "failed" >>

C15_Witness ==
    /\ rpc = "raised"
    /\ op.name = "load_artifact"
    /\ http.transient >= 1
    /\ LastAnswer = HttpAnswer(200, "BadGzipFile")
    /\ Val(outcome).kind = "BadGzipFile"
    /\ warm.shown = <<"connected">>

\* C16: when the artifact endpoint answers load_artifact with 200 and a valid
\* blob, after k answers that were 502, 503, 504 or transport exceptions, the
\* call has returned the deserialized object after exactly k+1 requests and
\* the indicator shows "connected", once; no request is made once the call
\* is over.
C16_TransientThenSuccess ==
    /\ [](( /\ op.name = "load_artifact"
            /\ IsSome(http.last)
            /\ LastAnswer = HttpAnswer(200, "valid") ) =>
             /\ rpc = "returned"
             /\ outcome = Some(Return("object"))
             /\ http.requests = http.transient + 1
             /\ warm.shown = <<"connected">>)
    /\ [][CallOver => http' = http]_vars

C16_Witness ==
    /\ op.name = "load_artifact"
    /\ rpc = "returned"
    /\ http.transient = 2
    /\ http.requests = 3
    /\ warm.shown = <<"connected">>

\* C17: load_artifacts_sequential starts the indicator once, before the first
\* artifact; the deadline it computed before the first request is the deadline
\* of every retry loop of the batch and never changes; an attempt for a later
\* artifact that is answered by 502, 503, 504 or a transport exception leads
\* to a sleep and leaves the indicator as it is.
C17_OneWarmupOneDeadline ==
    /\ [](op.name = "load_artifacts_sequential" =>
             /\ warm.starts <= 1
             /\ (op.n > 0 => warm.starts = 1 /\ loop.deadline = ArtifactDeadline(0)))
    /\ [][ op.name = "load_artifacts_sequential" =>
             /\ loop'.deadline = loop.deadline
             /\ (Attempted /\ op.idx > 0 /\ IsTransient(Val(http'.last))) =>
                   rpc' = "sleeping" /\ warm' = warm ]_vars

C17_Witness ==
    /\ op.name = "load_artifacts_sequential"
    /\ op.idx = 1
    /\ rpc = "sleeping"
    /\ loop.backoff = Seconds(4)
    /\ warm.starts = 1
    /\ warm.shown = <<"connected">>

\* The answer makes the download of the artifact fail: a status that is
\* neither 200 nor retryable, or a 200 with a blob that does not deserialize
IsFatal(ans) ==
    /\ ~ans.exc
    /\ \/ ans.status_code \notin {200, 502, 503, 504}
       \/ ans.status_code = 200 /\ ans.content # "valid"

\* C18: in load_artifacts_sequential an artifact whose download fails (fatal
\* answer, or timeout at the top of its retry loop) makes the call raise, at
\* that artifact; a call that raised gives no result map and makes no request
\* afterwards; a call that returns gives the objects of all the names.
C18_BatchAbort ==
    /\ [](op.name = "load_artifacts_sequential" =>
             /\ rpc = "raised" => Val(outcome).kind # "return" /\ IsNone(Val(outcome).value)
             /\ rpc = "returned" => outcome = Some(Return(0..(op.n - 1))))
    /\ [][ op.name = "load_artifacts_sequential" =>
             /\ (Attempted /\ IsFatal(Val(http'.last))) => rpc' = "raised" /\ op'.idx = op.idx
             /\ (rpc = "top" /\ loop.deadline - perf_counter <= 0) => rpc' = "raised"
             /\ rpc = "raised" => http' = http ]_vars

C18_Witness ==
    /\ op.name = "load_artifacts_sequential"
    /\ op.n = 2
    /\ op.idx = 1
    /\ op.results = {0}
    /\ rpc = "raised"
    /\ Val(outcome) = ApiError("Artifact deserialize failed", None, None)

\* ------------------------------------------------------ exception classes

\* The class that client.py raises under the name QernelAPIError: the one it
\* imports from qernel.core.client.config
ClientQernelAPIError == "qernel.core.client.config.QernelAPIError"

\* The class that the package qernel.core.client exports as QernelAPIError:
\* the one of qernel.core.client.exceptions
ExportedQernelAPIError == "qernel.core.client.exceptions.QernelAPIError"

\* The class of an exception of the model, by its kind
ClassOf(kind) == IF kind = "QernelAPIError" THEN ClientQernelAPIError ELSE kind

\* The classes an exception of class cls is an instance of: both
\* QernelAPIError classes derive from Exception and from nothing else
Mro(cls) ==
    IF cls = "RequestException"
    THEN {cls, "OSError", "Exception", "BaseException"}
    ELSE {cls, "Exception", "BaseException"}

\* except handler_class: catches an exception of class cls
Catches(handler_class, cls) == handler_class \in Mro(cls)

\* C19: a failure that run_stream_with_handler reports for a server error
\* event is an instance of the error type the package exports as
\* QernelAPIError, so that the caller's except clause for the exported class
\* catches it.
C19_OneErrorType ==
    (pc = "raised" /\ Val(raised).origin = "error_event") =>
        Catches(ExportedQernelAPIError, ClassOf(Val(raised).kind))

\* C20: when the connection fails with a transport exception after the stream
\* was opened and k valid events were folded, run_stream_with_handler raises a
\* QernelAPIError that carries the partial transcript with those k events.
C20_TransportFailureCarriesTranscript ==
    (pc = "raised" /\ Val(raised).origin = "transport") =>
        /\ Val(raised).kind = "QernelAPIError"
        /\ IsSome(Val(raised).transcript)
        /\ Len(Val(Val(raised).transcript).events) = ValidCount

\* ---------------------------------------- claims about run_stream with a GUI

\* C21: whenever run_stream(visualize=True) returns, the transcript it returns
\* is the one the stream consumer aggregated and has ended_reason = done; it
\* never returns a default empty transcript (after a server error event, a
\* connection failure, or a UI loop that ended before the consumer).
C21_GuiAllOrNothing ==
    IsSome(gui.result) =>
        /\ Val(gui.result).source = "consumer"
        /\ Val(gui.result).ended_reason = Some("done")

\* ------------------------------------------- claims about concurrent calls

\* The transcript t holds exactly the events of the lines, in their order
OwnEvents(t, lines) ==
    /\ Len(t.events) = Len(lines)
    /\ \A i \in 1..Len(lines) :
         Bare(t.events[i]) = Bare([lines[i].obj EXCEPT !.type = Val(@)])

\* The summary that the lines of one stream give the analysis of its result:
\* the result's own summary updated with the last pipeline:done summary that
\* came before the result
OwnSummary(lines) ==
    LET results == { i \in 1..Len(lines) : lines[i].obj.type = Some("result") }
        i == Max(results)
        stashes == { j \in 1..(i - 1) : lines[j].obj.stage = Some(<<"pipeline", "done">>) }
        Rsum == SummaryOf(Val(lines[i].obj.response).analysis)
    IN IF stashes = {} THEN Rsum
       ELSE DictUpdate(Rsum, Val(lines[Max(stashes)].obj.summary).v)

\* The transcript t, with its responses in rh, has the summary of its own lines
OwnMerge(t, rh, lines) ==
    IsSome(t.response) => SummaryOf(rh[Val(t.response)].analysis) = OwnSummary(lines)

\* C22: under every interleaving of two calls on one client, the transcript of
\* each call holds exactly the events of its own stream, in order, and the
\* response of each call has the pipeline:done summary of its own stream (and
\* of no other) merged into its analysis.
C22_Isolation ==
    /\ OwnEvents(T, received)
    /\ OwnMerge(T, rheap, received)
    /\ OwnEvents(peer.ctx.transcript, peer.received)
    /\ OwnMerge(peer.ctx.transcript, peer.rheap, peer.received)

C22_Witness ==
    /\ Len(received) = 2
    /\ Len(peer.received) = 2
    /\ received[1].obj = Status(<<"pipeline", "done">>, None, Some(Map(S1)), None)
    /\ peer.received[1].obj = Status(<<"pipeline", "done">>, None, Some(Map(S2)), None)
    /\ IsSome(T.response)
    /\ IsSome(peer.ctx.transcript.response)
    /\ SummaryOf(rheap[Val(T.response)].analysis) = [a |-> 1, b |-> 2]
    /\ SummaryOf(peer.rheap[Val(peer.ctx.transcript.response)].analysis) = [a |-> 3, b |-> 9]

\* ------------------------------------------- claims about the event log

\* The i-th entry of the event log, as model_dump gives it
LogEntry(i) == [T.events[i] EXCEPT !.response = DumpOptResponse(Mem, @)]

\* C23, the half that the code keeps: every step leaves the event log as it
\* was or appends one event to it; no entry is removed or changes its place.
C23_OnlyAppended ==
    [][\/ T.events' = T.events
       \/ /\ Len(T.events') = Len(T.events) + 1
          /\ \A i \in 1..Len(T.events) : Bare(T.events'[i]) = Bare(T.events[i])]_vars

\* C23: the event log is append-only and in arrival order: every step leaves
\* the entries that are in the log in their places, and what each of them
\* holds (its event, with the response the event carries) is what it held.
C23_EventLogAppendOnly ==
    [][/\ Len(T.events') >= Len(T.events)
       /\ \A i \in 1..Len(T.events) : LogEntry(i)' = LogEntry(i)]_vars

\* ------------------------------------------- claims about the task summary

\* summarize_tasks has returned
TaskReturned == IsSome(task.out) /\ IsNone(Val(task.out).exc)

\* The entries it returned
Entries == Val(task.out).ret

Ids(entries) == [i \in 1..Len(entries) |-> entries[i].id]

\* The words of each keyword group of the docstring
ResourceWords == { <<"resource">>, <<"estimate">> }
MitigationWords == { <<"mitiq">>, <<"zne">>, <<"error", " ", "mitigation">> }
SimulationWords == { <<"simulate">>, <<"simulation">>, <<"histogram">>, <<"shots">> }

\* A word of the group is in the lower-cased docstring
GroupPresent(doc, words) == \E kw \in words : InText(LowerText(doc), kw)

\* C24: summarize_tasks gives one entry per keyword group present in the
\* lower-cased docstring, at most one per group, in the order
\* resource_estimation, error_mitigation_zne, simulation_histogram wherever
\* the words are in the text; all three groups give the three ids in that
\* order, and an empty or missing docstring gives no entry.
C24_TaskDetection ==
    TaskReturned =>
        /\ Ids(Entries) =
              (IF GroupPresent(task.doc, ResourceWords)
               THEN <<"resource_estimation">> ELSE <<>>)
           \o (IF GroupPresent(task.doc, MitigationWords)
               THEN <<"error_mitigation_zne">> ELSE <<>>)
           \o (IF GroupPresent(task.doc, SimulationWords)
               THEN <<"simulation_histogram">> ELSE <<>>)
        /\ Len(task.doc) = 0 => Entries = <<>>

C24_Witness ==
    /\ TaskReturned
    /\ task.doc = <<"shots", "ZNE", "Resource">>
    /\ Ids(Entries) = <<"resource_estimation", "error_mitigation_zne", "simulation_histogram">>

\* The keywords of the task with the id
KeywordsOf(id) ==
    CASE id = "resource_estimation" -> ResourceKeywords
      [] id = "error_mitigation_zne" -> MitigationKeywords
      [] OTHER -> SimulationKeywords

\* The lower-cased name of the step contains one of the keywords
NameHasKeyword(step, keywords) ==
    /\ "name" \in DOMAIN step.v
    /\ \E i \in 1..Len(keywords) : InText(LowerText(step.v.name), keywords[i])

\* The steps of the analysis whose name has a keyword of the task, in
\* pipeline order
StepsOfTask(id) ==
    SelectSeq(get_pipeline(task.analysis),
              LAMBDA step : NameHasKeyword(step, KeywordsOf(id)))

\* The entry of the task with the id
EntryOf(id) == Entries[CHOOSE i \in 1..Len(Entries) : Entries[i].id = id]

HasEntry(id) == \E i \in 1..Len(Entries) : Entries[i].id = id

\* C25: the details of a task come only from the steps whose lower-cased name
\* contains a keyword of the task: every key of the details is a key that the
\* output of such a step gives, with that step's value.  With the pipeline
\* [resource.qualtran with output.summary.t_count = 10, mitigation.mitiq.zne
\* with output.mitigated_value = 0.5] and both tasks detected, the details of
\* resource_estimation have t_count = 10 and no mitigated_value, and the
\* details of error_mitigation_zne have mitigated_value = 0.5 and no t_count.
C25_KeywordIsolation ==
    TaskReturned =>
        /\ \A i \in 1..Len(Entries) :
             \A key \in DOMAIN Entries[i].details :
                \E j \in 1..Len(StepsOfTask(Entries[i].id)) :
                   LET out == OutputOf(StepsOfTask(Entries[i].id)[j])
                   IN /\ out.t = "map"
                      /\ key \in DOMAIN collect_step_details_from_output(out.v)
                      /\ collect_step_details_from_output(out.v)[key]
                            = Entries[i].details[key]
        /\ ( /\ get_pipeline(task.analysis) = <<StepQualtran, StepZne>>
             /\ HasEntry("resource_estimation")
             /\ HasEntry("error_mitigation_zne") )
           => /\ EntryOf("resource_estimation").details = [t_count |-> Num(10)]
              /\ EntryOf("error_mitigation_zne").details
                    = [mitigated_value |-> Float(1, 2)]

C25_Witness ==
    /\ TaskReturned
    /\ get_pipeline(task.analysis) = <<StepQualtran, StepZne>>
    /\ HasEntry("resource_estimation")
    /\ HasEntry("error_mitigation_zne")
    /\ "t_count" \in DOMAIN EntryOf("resource_estimation").details
    /\ "mitigated_value" \in DOMAIN EntryOf("error_mitigation_zne").details

\* The output of the step, filtered to the known fields
FilteredOutput(step) == Restrict(OutputOf(step).v, KnownOutputFields)

C27_StatusRule ==
    TaskReturned =>
        \A i \in 1..Len(Entries) :
           /\ Entries[i].status \in {"success", "info"}
           /\ Entries[i].status = "success"
                <=> (DOMAIN Entries[i].details # {} \/ DOMAIN Entries[i].json # {})

C27_Witness ==
    /\ TaskReturned
    /\ HasEntry("resource_estimation")
    /\ HasEntry("error_mitigation_zne")
    /\ EntryOf("resource_estimation").status = "info"
    /\ EntryOf("error_mitigation_zne").status = "success"
    /\ DOMAIN EntryOf("error_mitigation_zne").details = {}

\* ------------------------------------------- claims about the end of a call

\* The transcript that the raised error carries, when it carries one
CarriesTranscript == pc = "raised" /\ IsSome(raised) /\ IsSome(Val(raised).transcript)

CarriedTranscript == Val(Val(raised).transcript)

\* C28: every transcript the caller receives is closed: when the call has
\* returned, the returned transcript has ended_at set, and when it has raised
\* an error that carries a transcript (the error of a server error event
\* included) the snapshot it carries has ended_at set.
C28_DeliveredTranscriptClosed ==
    /\ pc = "returned" => IsSome(T.ended_at)
    /\ CarriesTranscript => IsSome(CarriedTranscript.ended_at)

\* C29: when the consumer is unwound by an exception that is not the one of a
\* server error event, the call raises a structured error that carries the
\* partial transcript, and the ended_reason of that transcript is
\* client_abort.
C29_ConsumerExceptionIsClientAbort ==
    (pc = "raised" /\ IsSome(raised) /\ Val(raised).origin # "error_event") =>
        /\ Val(raised).kind = "QernelAPIError"
        /\ IsSome(Val(raised).transcript)
        /\ CarriedTranscript.ended_reason = Some("client_abort")

\* C29, what the code does for the exceptions it wraps: the structured error
\* carries the transcript with the ended_reason it had, which is not
\* client_abort.
C29_NeverClientAbort ==
    /\ T.ended_reason # Some("client_abort")
    /\ CarriesTranscript => CarriedTranscript.ended_reason # Some("client_abort")

\* ------------------------------------------- claims about an attempt's timeout

\* The time that remains at the top of an iteration of a retry loop
Remaining == loop.deadline - perf_counter

\* An iteration is about to make its attempt
AboutToAttempt == rpc = "top" /\ ~TimedOut(Remaining)

\* The timeout that the attempt of this iteration is given
AttemptTimeout ==
    IF op.name = "stream" THEN PostTimeout(Remaining)
    ELSE per_attempt_timeout(Remaining)

\* C30: in both retry loops every attempt is given the timeout
\* min(remaining, cap), so that no attempt is given a timeout larger than the
\* time that remains until the deadline when it starts.
C30_AttemptTimeoutWithinRemaining ==
    AboutToAttempt => AttemptTimeout <= Remaining

\* C30, the half that the code keeps: the attempts of the stream opener are
\* given the remaining time, and those of the artifact loops are given no
\* more than max(timeout, 60 s).
C30_AttemptTimeoutCapped ==
    AboutToAttempt =>
        IF op.name = "stream" THEN AttemptTimeout = Remaining
        ELSE AttemptTimeout <= Max2(timeout, Seconds(60))

\* ------------------------------------------- claims about the backoff

\* A retry loop is running
InRetryLoop == rpc \in {"top", "sleeping"}

\* The retry loop of the stream opener or of the first artifact
FirstLoop == op.name = "stream" \/ op.idx = 0

InitialBackoff == IF FirstLoop THEN Seconds(2) ELSE Seconds(1)
BackoffCeiling == IF FirstLoop THEN Seconds(10) ELSE Seconds(6)

\* The step enters a retry loop: a call starts, or a batch goes to its next
\* artifact
EntersRetryLoop == rpc' = "top" /\ (rpc = "idle" \/ op'.idx # op.idx)

\* C31: in a retry loop the backoff starts at its initial value (2 s for the
\* stream opener and the first artifact, 1 s for the later artifacts of a
\* batch), is doubled, up to the ceiling, by the sleep after every retryable
\* failure, stays as it is in the other steps, never decreases and never
\* exceeds its ceiling (10 s, or 6 s for the later artifacts).
C31_BackoffSchedule ==
    [][/\ EntersRetryLoop => loop'.backoff = InitialBackoff'
       /\ (InRetryLoop /\ InRetryLoop' /\ ~EntersRetryLoop) =>
             /\ loop'.backoff >= loop.backoff
             /\ loop'.backoff <= BackoffCeiling
             /\ loop'.backoff =
                   IF rpc = "sleeping"
                   THEN Min2(2 * loop.backoff, BackoffCeiling)
                   ELSE loop.backoff]_vars

C31_Witness ==
    /\ rpc = "top"
    /\ op.name = "load_artifacts_sequential"
    /\ op.idx = 1
    /\ loop.backoff = Seconds(6)
    /\ IsSome(http.last)
    /\ IsTransient(LastAnswer)

\* ------------------------------------------- claims about the frame

\* The line that the step has read
LineRead == received'[Len(received')]

\* A stage that starts with none of get_name:ok, get_type:ok, build_circuit:ok
NonMatchingStage(stage) ==
    /\ ~StartsWith(stage, <<"get_name", "ok">>)
    /\ ~StartsWith(stage, <<"get_type", "ok">>)
    /\ ~StartsWith(stage, <<"build_circuit", "ok">>)

\* The step folds a start event or a status event with a non-matching stage
FoldsFrameEvent ==
    /\ Len(received') = Len(received) + 1
    /\ \/ IsEventOfType(LineRead, "start")
       \/ /\ IsEventOfType(LineRead, "status")
          /\ NonMatchingStage(IF IsSome(LineRead.obj.stage)
                              THEN Val(LineRead.obj.stage) ELSE <<>>)

\* C32: folding a start event, or a status event whose stage starts with none
\* of get_name:ok, get_type:ok, build_circuit:ok, appends the event to the
\* event log and leaves response, methods, class_name, class_doc and
\* ended_reason of the transcript as they were, and ended_at too when the
\* handler returns (when a sink raises, the except clause of the call closes
\* the transcript).
C32_FrameOfStartAndStatus ==
    [][FoldsFrameEvent =>
          /\ Len(T.events') = Len(T.events) + 1
          /\ SubSeq(T.events', 1, Len(T.events)) = T.events
          /\ T.events'[Len(T.events')].type = Val(LineRead.obj.type)
          /\ T.response' = T.response
          /\ rheap' = rheap
          /\ T.methods' = T.methods
          /\ Methods' = Methods
          /\ T.class_name' = T.class_name
          /\ T.class_doc' = T.class_doc
          /\ T.ended_reason' = T.ended_reason
          /\ pc' = "draining" => T.ended_at' = T.ended_at]_vars

C32_Witness ==
    /\ pc = "draining"
    /\ Len(received) = 3
    /\ IsEventOfType(received[1], "status")
    /\ received[1].obj.stage = Some(<<"get_name", "ok">>)
    /\ IsEventOfType(received[2], "start")
    /\ IsEventOfType(received[3], "status")
    /\ received[3].obj.stage = Some(<<"pipeline", "done">>)
    /\ Methods.get_name_result = Some("Bell")
    /\ Len(T.events) = 3

\* ------------------------------------------- claims about failures shown

\* What the step sent to the sinks
NewCalls == SubSeq(calls', Len(calls) + 1, Len(calls'))

\* The step reads a server error event
ReadsErrorEvent ==
    /\ Len(received') = Len(received) + 1
    /\ IsEventOfType(LineRead, "error")

\* C33: when a run ends with a server error event, the terminal sink prints
\* a line that shows the failure and an attached GUI sink receives a status
\* update that shows it, before the error reaches the caller.
C33_FailureShown ==
    [][ReadsErrorEvent =>
          /\ \E i \in 1..Len(NewCalls) :
                /\ NewCalls[i].sink = "terminal"
                /\ NewCalls[i].method = "print_status"
                /\ NewCalls[i].arg = "error"
          /\ ctx.viz_sink =>
                \E i \in 1..Len(NewCalls) :
                   /\ NewCalls[i].sink = "gui"
                   /\ NewCalls[i].method = "update_status"
                   /\ NewCalls[i].arg = "error"]_vars

\* C33, what the code does: the step that reads a server error event sends
\* nothing to the GUI sink and prints no status line.
C33_ErrorEventIsSilent ==
    [][ReadsErrorEvent =>
          \A i \in 1..Len(NewCalls) :
             /\ NewCalls[i].sink # "gui"
             /\ NewCalls[i].method # "print_status"]_vars

\* ------------------------------------------- claims about the summarizer's say

\* The call raised the exception of the task summarizer
SummarizerRaised ==
    pc = "raised" /\ IsSome(raised) /\ Val(raised).origin = "task_summary"

\* C34: whatever analysis the result event carries (a pipeline whose entries
\* are not maps included), deriving the task summary never raises into the
\* consumer: no call ends with the exception of the summarizer, and after a
\* result event with a response has been read the consumer goes on reading
\* unless a sink raised.
C34_SummarizerHasNoAuthority ==
    /\ ~SummarizerRaised
    /\ ( /\ Len(received) > 0
         /\ IsEventOfType(LastLine, "result")
         /\ IsSome(LastLine.obj.response)
         /\ pc = "raised" )
       => IsSome(raised) /\ Val(raised).origin = "sink"

\* C34, what the code keeps: the summarizer never changes ended_reason; when
\* it raises, ended_reason and ended_at are left null.
C34_SummarizerLeavesEndedReason ==
    SummarizerRaised => IsNone(T.ended_reason) /\ IsNone(T.ended_at)

\* C35: when a pipeline:done summary S was stashed before the result event,
\* a key that occurs both in S and in the result's own analysis.summary has
\* in the merged analysis.summary its value from S; a key of one of the two
\* alone keeps its value; and every other key of analysis is the one the
\* result event carried, with the values it carried.
C35_MergePrecedence ==
    (IsSome(T.response) /\ StashPlaces(Max(ResultPlaces)) # {}) =>
        LET i == Max(ResultPlaces)
            S == Val(received[Max(StashPlaces(i))].obj.summary).v
            own == AnalysisOrEmpty(received[i].obj.response[1].analysis)
            Rsum == SummaryOrEmpty(own)
            analysis == Val(rheap[Val(T.response)].analysis)
        IN /\ \A k \in (DOMAIN S) \cap (DOMAIN Rsum) : analysis["summary"][k] = S[k]
           /\ \A k \in (DOMAIN S) \ (DOMAIN Rsum) : analysis["summary"][k] = S[k]
           /\ \A k \in (DOMAIN Rsum) \ (DOMAIN S) : analysis["summary"][k] = Rsum[k]
           /\ (DOMAIN analysis) \ {"summary"} = (DOMAIN own) \ {"summary"}
           /\ \A k \in (DOMAIN own) \ {"summary"} :
                \A f \in DOMAIN own[k] : analysis[k][f] = own[k][f]

\* The stash {a: 3, b: 9} and the result's own summary {b: 2} give b = 9, and
\* the artifact the result carried is still there
C35_Witness ==
    /\ Len(received) = 2
    /\ received[1].obj = Status(<<"pipeline", "done">>, None, Some(Map(S2)), None)
    /\ received[2].obj = Obj(Some("result"), None, None, None, None, Some(Response1))
    /\ received[1].prefix /\ received[2].prefix
    /\ IsSome(T.response)
    /\ Val(rheap[Val(T.response)].analysis)["summary"] = [a |-> 3, b |-> 9]
    /\ Val(rheap[Val(T.response)].analysis)["artifacts"]["circuit_json_b64"] = "eyJxIjoyfQ=="

\* The step folds a pipeline:done status event while a response is held
FoldsLatePipelineDone ==
    /\ Len(received') = Len(received) + 1
    /\ IsEventOfType(LineRead, "status")
    /\ LineRead.obj.stage = Some(<<"pipeline", "done">>)
    /\ IsSome(T.response)

\* C36: a pipeline:done status event folded after the result event leaves the
\* transcript's response and its analysis as they were, so that
\* analysis.summary reflects only what was stashed before the result; and when
\* no pipeline:done with a structured summary came before the result event,
\* the response has the analysis.summary the result event carried (none when
\* it carried none).
C36_StashOrderSensitive ==
    [][ /\ FoldsLatePipelineDone =>
             /\ T'.response = T.response
             /\ rheap'[Val(T.response)].analysis = rheap[Val(T.response)].analysis
        /\ (IsSome(T'.response) /\ StashPlaces(Max(ResultPlaces))' = {}) =>
             LET own == received'[Max(ResultPlaces)'].obj.response[1].analysis
                 analysis == rheap'[Val(T'.response)].analysis
             IN /\ IsSome(analysis) <=> IsSome(own)
                /\ IsSome(own) =>
                     /\ ("summary" \in DOMAIN Val(analysis)) <=> ("summary" \in DOMAIN Val(own))
                     /\ SummaryOf(analysis) = SummaryOf(own) ]_vars

\* A pipeline:done summary {a: 1} came after the result: the summary is the
\* result's own {b: 2}
C36_Witness ==
    /\ Len(received) = 2
    /\ received[1].obj = Obj(Some("result"), None, None, None, None, Some(Response1))
    /\ received[2].obj = Status(<<"pipeline", "done">>, None, Some(Map(S1)), None)
    /\ received[1].prefix /\ received[2].prefix
    /\ pc = "draining"
    /\ IsSome(T.response)
    /\ SummaryOf(rheap[Val(T.response)].analysis) = [b |-> 2]

\* C37: every transcript that run_stream_with_handler returns with
\* ended_reason = done has a response, a class_name and a class_doc: a result
\* event with a response was folded before the done event.
C37_DoneHoldsResults ==
    (pc = "returned" /\ T.ended_reason = Some("done")) =>
        /\ IsSome(T.response)
        /\ IsSome(T.class_name)
        /\ IsSome(T.class_doc)
        /\ ResultPlaces # {}

\* C37, what the code keeps: the three fields are set together, by a result
\* event with a response and by nothing else.
C37_ResultsSetTogether ==
    /\ IsSome(T.response) <=> IsSome(T.class_name)
    /\ IsSome(T.response) <=> IsSome(T.class_doc)
    /\ IsSome(T.response) <=> ResultPlaces # {}

\* C38: whenever the transcript holds a response, it is the response of the
\* most recent result event that carried one, and the transcript's methods,
\* class_name and class_doc equal the methods, class and class_doc of that
\* response, also after later status events have written into the
\* transcript's methods.
C38_TopLevelConsistent ==
    IsSome(T.response) =>
        LET r == Val(T.response)
            w == Val(received[Max(ResultPlaces)].obj.response)
        IN /\ r = Cardinality(ResultPlaces)
           /\ Methods = mheap[rheap[r].methods]
           /\ T.class_name = Some(rheap[r].class_)
           /\ T.class_doc = Some(rheap[r].class_doc)
           /\ rheap[r].class_ = Val(w.class_)
           /\ rheap[r].class_doc = w.class_doc

\* get_type:ok came after the result: the transcript's methods and the
\* response's methods both say 7
C38_Witness ==
    /\ Len(received) = 2
    /\ received[1].obj = Obj(Some("result"), None, None, None, None, Some(Response1))
    /\ received[2].obj = Status(<<"get_type", "ok">>, Some(Num(7)), None, None)
    /\ received[1].prefix /\ received[2].prefix
    /\ pc = "draining"
    /\ IsSome(T.response)
    /\ Methods.get_type_result # Response1.methods.get_type_result
    /\ mheap[rheap[Val(T.response)].methods].get_type_result = Methods.get_type_result

\* C39: every entry that summarize_tasks returns has the status success if
\* and only if at least one step of the pipeline has a lower-cased name that
\* contains a keyword of the task; so an entry with details has a json slice,
\* and an entry with the status info has neither details nor a json slice.
C39_StatusTracksMatching ==
    TaskReturned =>
        \A i \in 1..Len(Entries) :
           /\ Entries[i].status = "success" <=> Len(StepsOfTask(Entries[i].id)) > 0
           /\ DOMAIN Entries[i].details # {} => DOMAIN Entries[i].json # {}
           /\ Entries[i].status = "info" =>
                DOMAIN Entries[i].details = {} /\ DOMAIN Entries[i].json = {}

\* One task has a matching step that gives details, another has no matching
\* step
C39_Witness ==
    /\ TaskReturned
    /\ Len(Entries) >= 2
    /\ \E i, j \in 1..Len(Entries) :
         /\ Len(StepsOfTask(Entries[i].id)) > 0
         /\ Entries[i].status = "success"
         /\ DOMAIN Entries[i].details # {}
         /\ Len(StepsOfTask(Entries[j].id)) = 0
         /\ Len(get_pipeline(task.analysis)) > 0
         /\ Entries[j].status = "info"

====
